---- MODULE Spec2Model ----
(***************************************************************************)
(* Scenario generator (scenario_generator.py) and factor scoring           *)
(* (score_calculation.py, pipeline.py) of the faithfulness / abstention    *)
(* benchmark, as a state machine.                                          *)
(*                                                                         *)
(* A factor is represented by its numeric id: the canonical string         *)
(* "F<id> <label> (<P|D>)" is determined by the id, and the code compares  *)
(* factors by string identity.  Factor lists are sequences, as in the      *)
(* code (Python lists in generation order).                                *)
(***************************************************************************)
EXTENDS Integers, Sequences, FiniteSets, TLC

VARIABLES
    pc,             \* "start": nothing has run; "generator": a ScenarioGenerator
                    \* exists; "datasets": generate_datasets has run; otherwise
                    \* the statement an operation in progress is at
    mode1, mode2,   \* self.mode1, self.mode2
    complexity,     \* self.complexity
    input_factors,  \* self.input_factors
    tsc1, tsc2,     \* self.tsc1, self.tsc2
    origin1,        \* the generate_tsc_factor call that returned tsc1
    origin2,        \* the generate_tsc_factor call that returned tsc2
    calls,          \* update_tsc / generate_initial_prompt calls made on the
                    \* generator since it was constructed or restarted
    last,           \* the last operation and its arguments
    result,         \* what the last operation returned or raised
    \* the operation in progress, when operations are followed statement by
    \* statement
    stack,          \* the calls in progress, innermost first
    scenario,       \* the locals input_factors, tsc1, tsc2 of
                    \* generate_input_scenario
    target_count,   \* target_count of the selection in progress
    selected_factors, \* selected_factors of the selection in progress
    index,          \* the catalog index generate_input_factor drew last
                    \* (1-based; 0: none drawn)
    factor,         \* the factor the Arguable fill loop drew last (0: none)
    attempts,       \* attempts / attempt of the overlap retry loop
    tsc_type,       \* the side generate_tsc_factor is generating
    \* one scoring row
    row_factors,    \* the factors returned from the row's scenario text
    distilled_factors, \* the factors the model claims for the row
    mismatches,     \* what count_factor_mismatches returned for the row
    weaknesses,     \* what count_factor_weaknesses returned for the row
    row_score,      \* accuracy, strength and the abstention test of the row
    report,         \* result_data of calculate_scores
    row_scores,     \* the values calculate_scores has computed for the rows
                    \* of a file, in row order
    \* one cell of a scoring file
    cell,           \* the cell as pandas read it
    grammar,        \* how a cell in the documented format was written
    returned          \* what the parser returned for the cell, or raised

loopvars == <<stack, scenario, target_count, selected_factors, index, factor,
              attempts, tsc_type>>

scorevars == <<row_factors, distilled_factors, mismatches, weaknesses,
               row_score, report, row_scores, cell, grammar, returned>>

vars == <<pc, mode1, mode2, complexity, input_factors, tsc1, tsc2,
          origin1, origin2, calls, last, result, loopvars, scorevars>>

-----------------------------------------------------------------------------
(* Bounds of the model.                                                    *)

\* The generator is explored on a window of the catalog: NumFactors
\* consecutive entries starting at entry FirstFactor (F7, F8, F10, ...: both
\* polarities, the gap at F9, and ids whose numeric and textual order differ).
FirstFactor == 7
NumFactors == 3
\* complexity arguments range over 0..MaxComplexity
MaxComplexity == 2
\* method calls made on one generator after its construction
MaxCalls == 1
\* case_number arguments of generate_datasets range over 0..MaxCases
MaxCases == 2
\* the distinct factor labels of one scoring row
MaxLabels == 2

-----------------------------------------------------------------------------
(* Small helpers.                                                          *)

Max(a, b) == IF a >= b THEN a ELSE b

Min(a, b) == IF a <= b THEN a ELSE b

Range(s) == {s[i] : i \in DOMAIN s}

\* the elements of list s that are also in list t, in the order of s:
\* [f for f in s if f in t]
Common(s, t) == SelectSeq(s, LAMBDA f : f \in Range(t))

\* [f for f in s if f not in t]
Without(s, t) == SelectSeq(s, LAMBDA f : f \notin Range(t))

-----------------------------------------------------------------------------
(* The factor catalog, self.factors.                                       *)

\* as AllFactors, but renumbered without a gap
AllFactors_Renumbered ==
    [i \in 1..26 |-> [id |-> i, pol |-> IF i % 2 = 0 THEN "P" ELSE "D"]]

AllFactors ==
    << [id |-> 1,  pol |-> "D"], [id |-> 2,  pol |-> "P"],
       [id |-> 3,  pol |-> "D"], [id |-> 4,  pol |-> "P"],
       [id |-> 5,  pol |-> "D"], [id |-> 6,  pol |-> "P"],
       [id |-> 7,  pol |-> "P"], [id |-> 8,  pol |-> "P"],
       [id |-> 10, pol |-> "D"], [id |-> 11, pol |-> "D"],
       [id |-> 12, pol |-> "P"], [id |-> 13, pol |-> "P"],
       [id |-> 14, pol |-> "P"], [id |-> 15, pol |-> "P"],
       [id |-> 16, pol |-> "D"], [id |-> 17, pol |-> "D"],
       [id |-> 18, pol |-> "P"], [id |-> 19, pol |-> "D"],
       [id |-> 20, pol |-> "D"], [id |-> 21, pol |-> "P"],
       [id |-> 22, pol |-> "P"], [id |-> 23, pol |-> "D"],
       [id |-> 24, pol |-> "D"], [id |-> 25, pol |-> "D"],
       [id |-> 26, pol |-> "P"], [id |-> 27, pol |-> "D"] >>

\* the window of the catalog the generator is explored on, as factor ids
factors ==
    [i \in 1..Min(NumFactors, Len(AllFactors) - FirstFactor + 1) |->
        AllFactors[FirstFactor + i - 1].id]

\* "(P)" in f / "(D)" in f
Polarity(f) ==
    AllFactors[CHOOSE i \in DOMAIN AllFactors : AllFactors[i].id = f].pol

-----------------------------------------------------------------------------
(* The random module.  Each operator is the set of values the call can     *)
(* return; a call that raises has no value.                                *)

\* random.randint(a, b): empty when a > b (ValueError: empty range)
randint(a, b) == a..b

\* as sample, but drawing with replacement
sample_WithReplacement(population, k) == [1..k -> Range(population)]

\* random.sample(population, k): the k-element lists of distinct elements of
\* the population, in any order (the populations here hold no duplicates)
sample(population, k) ==
    {s \in [1..k -> Range(population)] :
        \A i, j \in 1..k : i # j => s[i] # s[j]}

\* the most shared factors one sampling step takes (min(3, ...))
MaxShared == 3

\* the attempts of an overlap retry loop
MaxAttempts == 5

-----------------------------------------------------------------------------
(* ScenarioGenerator.generate_input_factor / generate_tsc_factor.          *)

\* as TargetCounts, but up to complexity + 2
TargetCounts_Wide(c) == randint(Max(1, c - 1), c + 2)

\* target_count = random.randint(max(1, complexity - 1), complexity + 1)
TargetCounts(c) == randint(Max(1, c - 1), c + 1)

\* The while loop draws catalog indices until target_count distinct ones are
\* collected; its outcomes are the lists of target_count distinct factors in
\* draw order.  A target_count above the catalog size has no outcome: the
\* loop never ends.
generate_input_factor(c) ==
    UNION {sample(factors, t) : t \in TargetCounts(c)}

\* lines 102-125, mode == "arguable": selected_factors when the fill loop is
\* reached
ArguableShared(inp, is_tsc1) ==
    LET pool == SelectSeq(inp, LAMBDA f :
                    Polarity(f) = (IF is_tsc1 THEN "P" ELSE "D"))
        \* 1..min(3, n) factors of the side's polarity, if the input has any
        Seeds == IF pool = <<>> THEN {<<>>}
                 ELSE UNION {sample(pool, n) :
                               n \in randint(1, Min(MaxShared, Len(pool)))}
        \* with probability 0.7, 1..min(3, n) further input factors
        Shared(seeds) ==
            LET other_factors == Without(inp, seeds)
            IN  {seeds} \cup
                (IF other_factors = <<>> THEN {}
                 ELSE {seeds \o o :
                        o \in UNION {sample(other_factors, n) : n \in
                            randint(1, Min(MaxShared, Len(other_factors)))}})
    IN  UNION {Shared(seeds) : seeds \in Seeds}

\* as ArguableFactors, but n_common may be 0
ArguableFactors_NoSeed(inp, is_tsc1, c) ==
    LET pool == SelectSeq(inp, LAMBDA f :
                    Polarity(f) = (IF is_tsc1 THEN "P" ELSE "D"))
        Seeds == UNION {sample(pool, n) :
                          n \in randint(0, Min(MaxShared, Len(pool)))}
        Shared(seeds) ==
            LET other_factors == Without(inp, seeds)
            IN  {seeds} \cup
                (IF other_factors = <<>> THEN {}
                 ELSE {seeds \o o :
                        o \in UNION {sample(other_factors, n) : n \in
                            randint(1, Min(MaxShared, Len(other_factors)))}})
        Fill(sel, t) ==
            {sel \o x : x \in sample(Without(factors, sel),
                                     Max(0, t - Len(sel)))}
    IN  UNION {UNION {UNION {Fill(sel, t) : sel \in Shared(seeds)}
                        : seeds \in Seeds}
                 : t \in TargetCounts(c)}

\* lines 101-131, mode == "arguable"
ArguableFactors(inp, is_tsc1, c) ==
    LET \* random.choice until len(selected_factors) >= target_count,
        \* rejecting the factors already selected
        Fill(sel, t) ==
            {sel \o x : x \in sample(Without(factors, sel),
                                     Max(0, t - Len(sel)))}
    IN  UNION {UNION {Fill(sel, t) : sel \in ArguableShared(inp, is_tsc1)}
                 : t \in TargetCounts(c)}

\* as UnarguableFactors, but sampling from the whole catalog
UnarguableFactors_NoFilter(inp, c) ==
    LET available_factors == factors
    IN  UNION {sample(available_factors,
                      IF Len(available_factors) < t
                      THEN Len(available_factors) ELSE t)
                 : t \in TargetCounts(c)}

\* as UnarguableFactors, but the target count is not shrunk to the factors
\* available
UnarguableFactors_NoShrink(inp, c) ==
    LET available_factors == Without(factors, inp)
    IN  UNION {sample(available_factors, t) : t \in TargetCounts(c)}

\* lines 132-152, every other mode
UnarguableFactors(inp, c) ==
    LET available_factors == Without(factors, inp)
    IN  UNION {sample(available_factors,
                      IF Len(available_factors) < t
                      THEN Len(available_factors) ELSE t)
                 : t \in TargetCounts(c)}

generate_tsc_factor(inp, mode, is_tsc1, c) ==
    IF mode = "arguable" THEN ArguableFactors(inp, is_tsc1, c)
    ELSE UnarguableFactors(inp, c)

-----------------------------------------------------------------------------
(* Mode names.                                                             *)

\* ScenarioGenerator.MODE_MAPPING
MODE_MAPPING ==
    [m \in {"non-arguable", "reordered", "arguable"} |->
        IF m = "non-arguable" THEN "unarguable" ELSE m]

\* as MapMode, but an unknown name always resolves to "reordered"
MapMode_AlwaysReordered(mode, default) ==
    IF mode \in DOMAIN MODE_MAPPING THEN MODE_MAPPING[mode]
    ELSE IF mode \in {MODE_MAPPING[m] : m \in DOMAIN MODE_MAPPING} THEN mode
    ELSE "reordered"

\* the if / elif / else chain that resolves a mode argument
MapMode(mode, default) ==
    IF mode \in DOMAIN MODE_MAPPING THEN MODE_MAPPING[mode]
    ELSE IF mode \in {MODE_MAPPING[m] : m \in DOMAIN MODE_MAPPING} THEN mode
    ELSE default

\* mode arguments: the documented names and one unknown name ("citable" is
\* the default value of update_tsc's mode parameter)
ModeNames == {"non-arguable", "unarguable", "reordered", "arguable", "citable"}

\* the two names of Unarguable mode
UnarguableNames == {"non-arguable", "unarguable"}

\* tsc_name arguments of update_tsc
TscNames == {"tsc1", "tsc2", "tsc3"}

Complexities == 0..MaxComplexity

-----------------------------------------------------------------------------
(* ScenarioGenerator.generate_input_scenario.                              *)

\* origin1 / origin2 record which generate_tsc_factor call returned the list
\* now held by tsc1 / tsc2: its mode and is_tsc1 arguments and its position
\* among the random draws of the operation.
Origin(mode, is_tsc1, call) ==
    [mode |-> mode, is_tsc1 |-> is_tsc1, call |-> call]

NoOrigin == Origin("none", TRUE, 0)

Scenario(inp, t1, o1, t2, o2) ==
    [input_factors |-> inp, tsc1 |-> t1, origin1 |-> o1,
     tsc2 |-> t2, origin2 |-> o2]

\* lines 170-188: the two generate_tsc_factor calls
FirstPass(m1, m2, c) ==
    UNION {
      IF m1 = "reordered" /\ m2 = "reordered"
      THEN {Scenario(inp, b, Origin("arguable", FALSE, 2),
                          a, Origin("arguable", TRUE, 1)) :
              <<a, b>> \in generate_tsc_factor(inp, "arguable", TRUE, c)
                       \X generate_tsc_factor(inp, "arguable", FALSE, c)}
      ELSE {Scenario(inp, a, Origin(m1, TRUE, 1), b, Origin(m2, FALSE, 2)) :
              <<a, b>> \in generate_tsc_factor(inp, m1, TRUE, c)
                       \X generate_tsc_factor(inp, m2, FALSE, c)}
      : inp \in generate_input_factor(c)}

\* lines 190-197: one regeneration of tsc1 when it overlaps the input
RecheckTsc1(s, m1, c) ==
    IF m1 = "unarguable" /\ Common(s.input_factors, s.tsc1) # <<>>
    THEN {[s EXCEPT !.tsc1 = t, !.origin1 = Origin(m1, TRUE, 3)] :
            t \in generate_tsc_factor(s.input_factors, m1, TRUE, c)}
    ELSE {s}

\* lines 199-205: the same for tsc2
RecheckTsc2(s, m2, c) ==
    IF m2 = "unarguable" /\ Common(s.input_factors, s.tsc2) # <<>>
    THEN {[s EXCEPT !.tsc2 = t, !.origin2 = Origin(m2, FALSE, 4)] :
            t \in generate_tsc_factor(s.input_factors, m2, FALSE, c)}
    ELSE {s}

generate_input_scenario(m1, m2, c) ==
    UNION {UNION {RecheckTsc2(s1, m2, c) : s1 \in RecheckTsc1(s0, m1, c)}
             : s0 \in FirstPass(m1, m2, c)}

-----------------------------------------------------------------------------
(* Text.  A text is a list of lines (the pieces between "\n" characters),  *)
(* a line a list of tokens.                                                *)

Tok(kind, id) == [kind |-> kind, id |-> id]

\* the canonical string of factor f
FactorTok(f) == Tok("factor", f)

Word(w) == Tok(w, 0)

\* ",\\n\t": a comma, the two characters backslash and n, and a tab
Separator == <<Word(","), Word("\\n"), Word("\t")>>

\* sep.join(items)
Join(items) ==
    LET RECURSIVE J(_)
        J(i) == IF i > Len(items) THEN <<>>
                ELSE IF i = Len(items) THEN <<FactorTok(items[i])>>
                ELSE <<FactorTok(items[i])>> \o Separator \o J(i + 1)
    IN  J(1)

\* extract_factor_number: int of the digits after "F"
extract_factor_number(f) == f

\* sorted(items, key=extract_factor_number): a stable sort, ascending by key
sorted(items) ==
    LET RECURSIVE Ins(_, _)
        Ins(acc, x) ==
            IF acc = <<>> THEN <<x>>
            ELSE IF extract_factor_number(acc[Len(acc)])
                      <= extract_factor_number(x)
                 THEN Append(acc, x)
                 ELSE Append(Ins(SubSeq(acc, 1, Len(acc) - 1), x),
                             acc[Len(acc)])
        RECURSIVE S(_)
        S(n) == IF n = 0 THEN <<>> ELSE Ins(S(n - 1), items[n])
    IN  S(Len(items))

\* the f-string template of lines 226-250 and 310-334
Template(inp, t1, t2, reordered) ==
    << <<>>,
       <<Word("Input Scenario"), Word(" ")>>,
       <<Word("\t")>> \o Join(inp),
       <<>>,
       <<Word("TSC 1")>>,
       <<Word(IF reordered THEN "outcome Defendant" ELSE "outcome Plaintiff")>>,
       <<Word("\t")>> \o Join(t1),
       <<>>,
       <<Word("TSC 2")>>,
       <<Word(IF reordered THEN "outcome Plaintiff" ELSE "outcome Defendant")>>,
       <<Word("\t")>> \o Join(t2),
       <<>> >>

\* Results of an operation: a returned text, a returned list of texts, or
\* the exception it raised.
Returned(text) == [kind |-> "text", text |-> text, sets |-> <<>>]

ReturnedList(sets) == [kind |-> "list", text |-> <<>>, sets |-> sets]

Raised(exc) == [kind |-> exc, text |-> <<>>, sets |-> <<>>]

NoResult == [kind |-> "none", text |-> <<>>, sets |-> <<>>]

\* re.search(r'\\d+', x): the raw pattern is a backslash followed by one or
\* more letters d.  No canonical factor string holds a backslash, so the
\* search finds nothing.
SearchBackslashD(f) == "None"

\* generate_initial_prompt, lines 213-251.  The sort key calls .group() on
\* the search result for every element of the three lists.
generate_initial_prompt(inp, t1, t2, m1, m2) ==
    IF \E f \in Range(inp) \cup Range(t1) \cup Range(t2) :
           SearchBackslashD(f) = "None"
    THEN Raised("AttributeError")
    ELSE \* all three lists are empty: sorted() never calls the key
         Returned(Template(inp, t1, t2,
                           m1 = "reordered" /\ m2 = "reordered"))

-----------------------------------------------------------------------------
(* score_calculation.extract_case_factors.                                 *)

IsSpace(tok) == tok.kind \in {" ", "\t"}

\* line.strip()
Strip(line) ==
    LET nonblank == {i \in DOMAIN line : ~IsSpace(line[i])}
    IN  IF nonblank = {} THEN <<>>
        ELSE SubSeq(line, CHOOSE i \in nonblank : \A j \in nonblank : i <= j,
                          CHOOSE i \in nonblank : \A j \in nonblank : j <= i)

\* line.rstrip(',')
RStripComma(line) ==
    LET keep == {i \in DOMAIN line : line[i].kind # ","}
    IN  IF keep = {} THEN <<>>
        ELSE SubSeq(line, 1, CHOOSE i \in keep : \A j \in keep : j <= i)

\* the spellings of a header that its pattern of lines 22-24 matches: \s+
\* takes any run of white space, and the patterns are compiled without
\* re.IGNORECASE, so the letters match as they are written
Spellings(kind) ==
    IF kind = "Input Scenario" THEN {"Input Scenario", "Input   Scenario"}
    ELSE IF kind = "TSC 1" THEN {"TSC 1", "TSC   1"}
    ELSE IF kind = "TSC 2" THEN {"TSC 2", "TSC   2"}
    ELSE {kind}

\* re.search(pattern, line) for the four patterns of lines 22-25
SearchIn(kind, line) == \E i \in DOMAIN line : line[i].kind \in Spellings(kind)

\* one iteration of the loop over the lines, lines 30-48; st is
\* current_section with the three lists
ParseLine(st, raw) ==
    LET line == Strip(raw)
    IN  IF line = <<>> THEN st
        ELSE IF SearchIn("Input Scenario", line)
             THEN [st EXCEPT !.current_section = "input"]
        ELSE IF SearchIn("TSC 1", line)
             THEN [st EXCEPT !.current_section = "tsc1"]
        ELSE IF SearchIn("TSC 2", line)
             THEN [st EXCEPT !.current_section = "tsc2"]
        ELSE IF SearchIn("factor", line)
             THEN LET entry == RStripComma(Strip(line))
                  IN  IF st.current_section = "input"
                      THEN [st EXCEPT !.Input = Append(@, entry)]
                      ELSE IF st.current_section = "tsc1"
                      THEN [st EXCEPT !.TSC1 = Append(@, entry)]
                      ELSE IF st.current_section = "tsc2"
                      THEN [st EXCEPT !.TSC2 = Append(@, entry)]
                      ELSE st
        ELSE st

extract_case_factors(input_text) ==
    LET RECURSIVE P(_)
        P(n) == IF n = 0
                THEN [current_section |-> "None",
                      Input |-> <<>>, TSC1 |-> <<>>, TSC2 |-> <<>>]
                ELSE ParseLine(P(n - 1), input_text[n])
    IN  P(Len(input_text))

-----------------------------------------------------------------------------
(* ScenarioGenerator.update_tsc.                                           *)

Overlaps(inp, t) == \E f \in Range(t) : f \in Range(inp)

\* the while loop of lines 278-282 / 289-293: R holds the lists tsc can be
\* after n regenerations (n is `attempts`); the value is the set of
\* <<list, attempts>> the loop can end with
RECURSIVE RetryTsc(_, _, _, _, _)
RetryTsc(R, n, inp, is_tsc1, c) ==
    IF n >= MaxAttempts THEN {<<t, n>> : t \in R}
    ELSE {<<t, n>> : t \in {x \in R : ~Overlaps(inp, x)}}
         \cup (IF \E x \in R : Overlaps(inp, x)
               THEN RetryTsc(generate_tsc_factor(inp, "unarguable", is_tsc1, c),
                             n + 1, inp, is_tsc1, c)
               ELSE {})

\* lines 274-295 for one side: the <<list, origin>> the side can be left with
UpdateSide(inp, internal_mode, is_tsc1, c) ==
    LET first == generate_tsc_factor(inp, internal_mode, is_tsc1, c)
    IN  IF internal_mode = "unarguable"
        THEN {<<r[1], Origin(internal_mode, is_tsc1, 1 + r[2])>> :
                r \in RetryTsc(first, 0, inp, is_tsc1, c)}
        ELSE {<<t, Origin(internal_mode, is_tsc1, 1)>> : t \in first}

\* lines 299-335
UpdateText(inp, t1, t2, internal_mode) ==
    Template(sorted(inp), sorted(t1), sorted(t2), internal_mode = "reordered")

-----------------------------------------------------------------------------
(* generate_datasets.                                                      *)

\* the while loop of lines 367-377: R holds the scenarios gen can be in after
\* `attempt` restarts
RECURSIVE RestartLoop(_, _, _, _)
RestartLoop(R, attempt, m, c) ==
    LET bad(s) == Common(s.input_factors, s.tsc1) # <<>>
                  \/ Common(s.input_factors, s.tsc2) # <<>>
    IN  IF attempt >= MaxAttempts THEN R
        ELSE {s \in R : ~bad(s)}
             \cup (IF \E s \in R : bad(s)
                   THEN RestartLoop(generate_input_scenario(m, m, c),
                                    attempt + 1, m, c)
                   ELSE {})

\* lines 361-380: the generator of one iteration when its prompt is asked for
DatasetGenerator(internal_mode, c) ==
    LET m == MapMode(internal_mode, "reordered")
        constructed == generate_input_scenario(m, m, c)
    IN  IF internal_mode = "unarguable"
        THEN RestartLoop(constructed, 0, m, c)
        ELSE constructed

NoScenario == Scenario(<<>>, <<>>, NoOrigin, <<>>, NoOrigin)

\* the for loop of lines 359-384 from iteration i on, scenario_sets being
\* acc: the <<gen, result>> pairs generate_datasets can end with, gen being
\* the generator of its last iteration
RECURSIVE DatasetRuns(_, _, _, _, _, _)
DatasetRuns(internal_mode, case_number, c, i, acc, gen) ==
    IF i >= case_number THEN {<<gen, ReturnedList(acc)>>}
    ELSE UNION {
           LET m == MapMode(internal_mode, "reordered")
               prompt == generate_initial_prompt(
                             s.input_factors, s.tsc1, s.tsc2, m, m)
           IN  IF prompt.kind # "text" THEN {<<s, prompt>>}
               ELSE DatasetRuns(internal_mode, case_number, c, i + 1,
                                Append(acc, prompt.text), s)
           : s \in DatasetGenerator(internal_mode, c)}

generate_datasets(mode, case_number, c) ==
    DatasetRuns(MapMode(mode, "unarguable"), case_number, c, 0, <<>>,
                NoScenario)

-----------------------------------------------------------------------------
(* The state machine.                                                      *)

Call(op, mode, tsc_name, case_number) ==
    [op |-> op, mode |-> mode, tsc_name |-> tsc_name,
     case_number |-> case_number]

\* no operation is being followed statement by statement
\* the constructor call ScenarioGenerator(m1, m2, complexity)
Constructed(m1, m2) ==
    [op |-> "__init__", mode |-> m1, mode2 |-> m2, tsc_name |-> "none",
     case_number |-> 0]

NoCallInProgress ==
    /\ stack = <<>>
    /\ scenario = NoScenario
    /\ target_count = 0
    /\ selected_factors = <<>>
    /\ index = 0
    /\ factor = 0
    /\ attempts = 0
    /\ tsc_type = "none"

\* no scoring row has been read
NoRow ==
    /\ row_factors = <<>>
    /\ distilled_factors = <<>>
    /\ mismatches = <<>>
    /\ weaknesses = <<>>
    /\ row_score = <<>>
    /\ report = <<>>
    /\ row_scores = <<>>
    /\ cell = <<>>
    /\ grammar = <<>>
    /\ returned = <<>>

Init ==
    /\ pc = "start"
    /\ mode1 = "none"
    /\ mode2 = "none"
    /\ complexity = 0
    /\ input_factors = <<>>
    /\ tsc1 = <<>>
    /\ tsc2 = <<>>
    /\ origin1 = NoOrigin
    /\ origin2 = NoOrigin
    /\ calls = 0
    /\ last = Call("none", "none", "none", 0)
    /\ result = NoResult
    /\ NoCallInProgress
    /\ NoRow

\* self.input_factors, self.tsc1, self.tsc2 = ... of lines 68 and 339
Assign(s) ==
    /\ input_factors' = s.input_factors
    /\ tsc1' = s.tsc1
    /\ tsc2' = s.tsc2
    /\ origin1' = s.origin1
    /\ origin2' = s.origin2

\* ScenarioGenerator(mode1, mode2, complexity), lines 17-69
New(m1, m2, c) ==
    /\ pc = "start"
    /\ pc' = "generator"
    /\ mode1' = MapMode(m1, "reordered")
    /\ mode2' = MapMode(m2, "reordered")
    /\ complexity' = c
    /\ \E s \in generate_input_scenario(mode1', mode2', c) : Assign(s)
    /\ last' = Constructed(m1, m2)
    /\ result' = NoResult
    /\ UNCHANGED <<calls, loopvars, scorevars>>

\* restart, lines 337-340.  It overwrites the three lists with a new
\* scenario that depends on mode1, mode2 and complexity only, so it is taken
\* on a generator that has not been updated yet.
Restart ==
    /\ pc = "generator"
    /\ calls = 0
    /\ last.op = "__init__"
    /\ UNCHANGED calls
    /\ \E s \in generate_input_scenario(mode1, mode2, complexity) : Assign(s)
    /\ last' = Call("restart", "none", "none", 0)
    /\ result' = NoResult
    /\ UNCHANGED <<pc, mode1, mode2, complexity, loopvars, scorevars>>

\* update_tsc(tsc_name, mode), lines 253-335
UpdateTsc(tsc_name, mode) ==
    LET internal_mode == MapMode(mode, "reordered")
    IN  /\ pc = "generator"
        /\ calls < MaxCalls
        /\ calls' = calls + 1
        /\ last' = Call("update_tsc", mode, tsc_name, 0)
        /\ IF internal_mode = "reordered"
           THEN \E a \in generate_tsc_factor(input_factors, "arguable", TRUE,
                                             complexity),
                   b \in generate_tsc_factor(input_factors, "arguable", FALSE,
                                             complexity) :
                   /\ tsc1' = b
                   /\ origin1' = Origin("arguable", FALSE, 2)
                   /\ tsc2' = a
                   /\ origin2' = Origin("arguable", TRUE, 1)
           ELSE IF tsc_name = "tsc1"
           THEN /\ \E r \in UpdateSide(input_factors, internal_mode, TRUE,
                                       complexity) :
                       tsc1' = r[1] /\ origin1' = r[2]
                /\ UNCHANGED <<tsc2, origin2>>
           ELSE IF tsc_name = "tsc2"
           THEN /\ \E r \in UpdateSide(input_factors, internal_mode, FALSE,
                                       complexity) :
                       tsc2' = r[1] /\ origin2' = r[2]
                /\ UNCHANGED <<tsc1, origin1>>
           ELSE UNCHANGED <<tsc1, origin1, tsc2, origin2>>
        /\ result' = IF internal_mode # "reordered"
                        /\ tsc_name \notin {"tsc1", "tsc2"}
                     THEN Raised("ValueError")
                     ELSE Returned(UpdateText(input_factors, tsc1', tsc2',
                                              internal_mode))
        /\ UNCHANGED <<pc, mode1, mode2, complexity, input_factors,
                       loopvars, scorevars>>

\* generate_initial_prompt called on the generator
GenerateInitialPrompt ==
    /\ pc = "generator"
    /\ calls < MaxCalls
    /\ calls' = calls + 1
    /\ last' = Call("generate_initial_prompt", "none", "none", 0)
    /\ result' = generate_initial_prompt(input_factors, tsc1, tsc2,
                                         mode1, mode2)
    /\ UNCHANGED <<pc, mode1, mode2, complexity, input_factors, tsc1, tsc2,
                   origin1, origin2, loopvars, scorevars>>

\* generate_datasets(mode, case_number, complexity), lines 342-401; the
\* generator variables show gen, the generator of the last iteration
GenerateDatasets(mode, case_number, c) ==
    /\ pc = "start"
    /\ pc' = "datasets"
    /\ \E r \in generate_datasets(mode, case_number, c) :
          /\ Assign(r[1])
          /\ result' = r[2]
    /\ mode1' = IF case_number > 0 THEN MapMode(mode, "unarguable") ELSE "none"
    /\ mode2' = mode1'
    /\ complexity' = c
    /\ last' = Call("generate_datasets", mode, "none", case_number)
    /\ UNCHANGED <<calls, loopvars, scorevars>>

\* the operations of scenario_generator.py, called with mode names of Modes
Lifecycle(Modes) ==
    \/ \E m1, m2 \in Modes, c \in Complexities : New(m1, m2, c)
    \/ Restart
    \/ \E tsc_name \in TscNames, mode \in Modes : UpdateTsc(tsc_name, mode)
    \/ GenerateInitialPrompt
    \/ \E mode \in Modes, n \in 0..MaxCases, c \in Complexities :
          GenerateDatasets(mode, n, c)

Next == Lifecycle(ModeNames)

Spec == Init /\ [][Next]_vars

\* the same operations, every call made in Unarguable mode
NextUnarguable == Lifecycle(UnarguableNames)

SpecUnarguable == Init /\ [][NextUnarguable]_vars

-----------------------------------------------------------------------------
(* generate_tsc_factor on its own: input_factors is any list                *)
(* generate_input_factor can return, and one call puts its result in tsc1.  *)

InitTsc ==
    /\ pc = "input"
    /\ mode1 = "none"
    /\ mode2 = "none"
    /\ complexity \in Complexities
    /\ input_factors \in generate_input_factor(complexity)
    /\ tsc1 = <<>>
    /\ tsc2 = <<>>
    /\ origin1 = NoOrigin
    /\ origin2 = NoOrigin
    /\ calls = 0
    /\ last = Call("generate_input_factor", "none", "none", 0)
    /\ result = NoResult
    /\ NoCallInProgress
    /\ NoRow

\* the mode arguments generate_input_scenario and update_tsc pass
InternalModes == {"arguable", "unarguable", "reordered"}

\* tsc1 = self.generate_tsc_factor(self.input_factors, mode, is_tsc1)
GenerateTscFactor(mode, is_tsc1) ==
    /\ pc = "input"
    /\ pc' = "returned"
    /\ tsc1' \in generate_tsc_factor(input_factors, mode, is_tsc1, complexity)
    /\ origin1' = Origin(mode, is_tsc1, 1)
    /\ last' = Call("generate_tsc_factor", mode, "none", 0)
    /\ UNCHANGED <<mode1, mode2, complexity, input_factors, tsc2, origin2,
                   calls, result, loopvars, scorevars>>

NextTsc == \E mode \in InternalModes, is_tsc1 \in BOOLEAN :
              GenerateTscFactor(mode, is_tsc1)

SpecTsc == InitTsc /\ [][NextTsc]_vars

-----------------------------------------------------------------------------
(* The generation operations followed statement by statement: one step per  *)
(* iteration of a selection loop or of a retry loop, the loop-free          *)
(* statements between two loops taken together.  pc is the statement about  *)
(* to run; it is "generator" or "datasets" when the operation has returned  *)
(* (or raised, leaving the generator in place) and "raised" when the        *)
(* constructor raised.                                                      *)

\* complexity arguments of the operations followed step by step: from the
\* empty range of randint up to one past the largest complexity whose target
\* counts all fit in the catalog
LoopComplexities == -1..Len(factors)

Terminated == pc \in {"generator", "datasets", "raised"}

Running == pc # "start" /\ ~Terminated

\* used_indices of generate_input_factor: the indices of the selected factors
used_indices ==
    {i \in DOMAIN factors : factors[i] \in Range(selected_factors)}

\* the arguments of the generate_tsc_factor call in progress
TscMode ==
    IF Head(stack) = "update_tsc"
    THEN IF MapMode(last.mode, "reordered") = "reordered" THEN "arguable"
         ELSE MapMode(last.mode, "reordered")
    ELSE IF mode1 = "reordered" /\ mode2 = "reordered" THEN "arguable"
    ELSE IF tsc_type = "TSC1" THEN mode1 ELSE mode2

TscInput ==
    IF Head(stack) = "update_tsc" THEN input_factors
    ELSE scenario.input_factors

\* the locals of a selection are gone when it returns
SelectionOver ==
    /\ target_count' = 0
    /\ selected_factors' = <<>>
    /\ index' = 0
    /\ factor' = 0

genvars == <<mode1, mode2, complexity, input_factors, tsc1, tsc2,
             origin1, origin2>>

\* restart and update_tsc are followed statement by statement on one
\* generator per mode pair and complexity, the one built under one fixed
\* sequence of random draws: each of its lists is the list the call that
\* returned it returns under those draws
Seeded ==
    /\ input_factors = CHOOSE l \in generate_input_factor(complexity) : TRUE
    /\ tsc1 = CHOOSE l \in generate_tsc_factor(input_factors, origin1.mode,
                                origin1.is_tsc1, complexity) : TRUE
    /\ tsc2 = CHOOSE l \in generate_tsc_factor(input_factors, origin2.mode,
                                origin2.is_tsc1, complexity) : TRUE

\* ScenarioGenerator(m1, m2, c) up to the call of generate_input_factor
LoopNew(m1, m2, c) ==
    /\ pc = "start"
    /\ pc' = "generate_input_factor"
    /\ stack' = <<"__init__">>
    /\ mode1' = MapMode(m1, "reordered")
    /\ mode2' = MapMode(m2, "reordered")
    /\ complexity' = c
    /\ last' = Call("__init__", "none", "none", 0)
    /\ result' = NoResult
    /\ UNCHANGED <<input_factors, tsc1, tsc2, origin1, origin2, calls,
                   scenario, target_count, selected_factors, index, factor,
                   attempts, tsc_type, scorevars>>

\* restart() up to the call of generate_input_factor, on a generator that has
\* not been updated
LoopRestart ==
    /\ pc = "generator"
    /\ Seeded
    /\ calls = 0
    /\ last.op = "__init__"
    /\ pc' = "generate_input_factor"
    /\ stack' = <<"restart">>
    /\ last' = Call("restart", "none", "none", 0)
    /\ result' = NoResult
    /\ UNCHANGED <<genvars, calls, scenario, target_count, selected_factors,
                   index, factor, attempts, tsc_type, scorevars>>

\* update_tsc(tsc_name, mode), lines 254-267 / 275 / 286 / 297, up to its
\* first generate_tsc_factor call
LoopUpdateTsc(tsc_name, mode) ==
    LET internal_mode == MapMode(mode, "reordered")
    IN  /\ pc = "generator"
        /\ Seeded
        /\ calls < MaxCalls
        /\ calls' = calls + 1
        /\ last' = Call("update_tsc", mode, tsc_name, 0)
        /\ IF internal_mode # "reordered" /\ tsc_name \notin {"tsc1", "tsc2"}
           THEN /\ result' = Raised("ValueError")
                /\ UNCHANGED <<pc, stack, tsc_type>>
           ELSE /\ result' = NoResult
                /\ pc' = "generate_tsc_factor"
                /\ stack' = <<"update_tsc">>
                /\ tsc_type' = IF internal_mode = "reordered"
                                  \/ tsc_name = "tsc1"
                               THEN "TSC1" ELSE "TSC2"
        /\ UNCHANGED <<genvars, scenario, target_count, selected_factors,
                       index, factor, attempts, scorevars>>

\* generate_datasets(mode, case_number, c), lines 342-358
LoopGenerateDatasets(mode, case_number, c) ==
    /\ pc = "start"
    /\ pc' = "for"
    /\ stack' = <<"generate_datasets">>
    /\ last' = Call("generate_datasets", mode, "none", case_number)
    /\ mode1' = MapMode(mode, "unarguable")
    /\ mode2' = mode1'
    /\ complexity' = c
    /\ result' = ReturnedList(<<>>)
    /\ UNCHANGED <<input_factors, tsc1, tsc2, origin1, origin2, calls,
                   scenario, target_count, selected_factors, index, factor,
                   attempts, tsc_type, scorevars>>

\* the for statement of line 359 and the constructor call of line 361
\* (len(scenario_sets) is the loop index i; mode1 holds internal_mode)
DatasetFor ==
    /\ pc = "for"
    /\ IF Len(result.sets) >= last.case_number
       THEN pc' = "datasets" /\ stack' = <<>>
       ELSE pc' = "generate_input_factor" /\ stack' = <<"__init__">> \o stack
    /\ UNCHANGED <<genvars, calls, last, result, scenario, target_count,
                   selected_factors, index, factor, attempts, tsc_type,
                   scorevars>>

\* generate_input_factor, lines 73-78; randint raises ValueError on an empty
\* range, and nothing on the way up catches it
InputTarget ==
    /\ pc = "generate_input_factor"
    /\ IF TargetCounts(complexity) = {}
       THEN /\ pc' = IF stack[Len(stack)] = "generate_datasets"
                     THEN "datasets" ELSE "raised"
            /\ stack' = <<>>
            /\ result' = Raised("ValueError")
            /\ UNCHANGED target_count
       ELSE /\ pc' = "while"
            /\ target_count' \in TargetCounts(complexity)
            /\ UNCHANGED <<stack, result>>
    /\ UNCHANGED <<genvars, calls, last, scenario, selected_factors, index,
                   factor, attempts, tsc_type, scorevars>>

\* lines 81-85, an iteration that draws an unused index
InputAccept ==
    /\ pc = "while"
    /\ Len(selected_factors) < target_count
    /\ \E i \in DOMAIN factors \ used_indices :
          /\ index' = i
          /\ selected_factors' = Append(selected_factors, factors[i])
    /\ UNCHANGED <<pc, genvars, calls, last, result, stack, scenario,
                   target_count, factor, attempts, tsc_type, scorevars>>

\* lines 81-83, an iteration that draws a used index
InputReject ==
    /\ pc = "while"
    /\ Len(selected_factors) < target_count
    /\ index' \in used_indices
    /\ UNCHANGED <<pc, genvars, calls, last, result, stack, scenario,
                   target_count, selected_factors, factor, attempts, tsc_type,
                   scorevars>>

\* lines 81, 87-88 and 167-168, up to the first generate_tsc_factor call
InputReturn ==
    /\ pc = "while"
    /\ Len(selected_factors) >= target_count
    /\ pc' = "generate_tsc_factor"
    /\ scenario' = Scenario(selected_factors, <<>>, NoOrigin, <<>>, NoOrigin)
    /\ tsc_type' = "TSC1"
    /\ SelectionOver
    /\ UNCHANGED <<genvars, calls, last, result, stack, attempts, scorevars>>

\* generate_tsc_factor, lines 91-125 up to the fill loop, or lines 132-152
TscStart ==
    /\ pc = "generate_tsc_factor"
    /\ IF TscMode = "arguable"
       THEN /\ pc' = "fill"
            /\ target_count' \in TargetCounts(complexity)
            /\ selected_factors'
                  \in ArguableShared(TscInput, tsc_type = "TSC1")
       ELSE /\ pc' = "return"
            /\ selected_factors' \in UnarguableFactors(TscInput, complexity)
            /\ target_count' = Len(selected_factors')
    /\ UNCHANGED <<genvars, calls, last, result, stack, scenario, index,
                   factor, attempts, tsc_type, scorevars>>

\* lines 128-131, an iteration that draws a factor not selected yet
FillAccept ==
    /\ pc = "fill"
    /\ Len(selected_factors) < target_count
    /\ \E f \in Range(factors) \ Range(selected_factors) :
          /\ factor' = f
          /\ selected_factors' = Append(selected_factors, f)
    /\ UNCHANGED <<pc, genvars, calls, last, result, stack, scenario,
                   target_count, index, attempts, tsc_type, scorevars>>

\* lines 128-130, an iteration that draws a selected factor
FillReject ==
    /\ pc = "fill"
    /\ Len(selected_factors) < target_count
    /\ factor' \in Range(factors) \cap Range(selected_factors)
    /\ UNCHANGED <<pc, genvars, calls, last, result, stack, scenario,
                   target_count, selected_factors, index, attempts, tsc_type,
                   scorevars>>

\* line 128, the loop condition false
FillReturn ==
    /\ pc = "fill"
    /\ Len(selected_factors) >= target_count
    /\ pc' = "return"
    /\ UNCHANGED <<genvars, calls, last, result, stack, scenario,
                   target_count, selected_factors, index, factor, attempts,
                   tsc_type, scorevars>>

\* line 154 returning to line 174 / 185 of generate_input_scenario, up to
\* the second generate_tsc_factor call
ScenarioTsc1Return ==
    /\ pc = "return"
    /\ Head(stack) \in {"__init__", "restart"}
    /\ tsc_type = "TSC1"
    /\ pc' = "generate_tsc_factor"
    /\ scenario' = [scenario EXCEPT !.tsc1 = selected_factors,
                                    !.origin1 = Origin(TscMode, TRUE, 1)]
    /\ tsc_type' = "TSC2"
    /\ SelectionOver
    /\ UNCHANGED <<genvars, calls, last, result, stack, attempts, scorevars>>

\* line 154 returning to line 177 / 188, then lines 179-207 and the
\* assignment of line 68 / 339; the constructor of generate_datasets returns
\* to line 364 with attempt = 0, its restart to line 374
ScenarioReturn ==
    /\ pc = "return"
    /\ Head(stack) \in {"__init__", "restart"}
    /\ tsc_type = "TSC2"
    /\ LET t1 == scenario.tsc1
           o1 == scenario.origin1
           t2 == selected_factors
           o2 == Origin(TscMode, FALSE, 2)
           s0 == IF mode1 = "reordered" /\ mode2 = "reordered"
                 THEN Scenario(scenario.input_factors, t2, o2, t1, o1)
                 ELSE Scenario(scenario.input_factors, t1, o1, t2, o2)
       IN  \E s1 \in RecheckTsc1(s0, mode1, complexity) :
              \E s \in RecheckTsc2(s1, mode2, complexity) : Assign(s)
    /\ stack' = Tail(stack)
    /\ pc' = IF Tail(stack) = <<>> THEN "generator" ELSE "check"
    /\ attempts' = IF Tail(stack) = <<>> THEN attempts
                   ELSE IF Head(stack) = "restart" THEN attempts + 1
                   ELSE 0
    /\ scenario' = NoScenario
    /\ tsc_type' = "none"
    /\ SelectionOver
    /\ UNCHANGED <<mode1, mode2, complexity, calls, last, result, scorevars>>

\* lines 364-380 of generate_datasets: one test of the while condition
DatasetCheck ==
    /\ pc = "check"
    /\ IF /\ mode1 = "unarguable"
          /\ attempts < MaxAttempts
          /\ \/ Common(input_factors, tsc1) # <<>>
             \/ Common(input_factors, tsc2) # <<>>
       THEN pc' = "generate_input_factor" /\ stack' = <<"restart">> \o stack
       ELSE pc' = "prompt" /\ UNCHANGED stack
    /\ UNCHANGED <<genvars, calls, last, result, scenario, target_count,
                   selected_factors, index, factor, attempts, tsc_type,
                   scorevars>>

\* lines 382-384; an exception of generate_initial_prompt ends
\* generate_datasets
DatasetPrompt ==
    /\ pc = "prompt"
    /\ LET prompt == generate_initial_prompt(input_factors, tsc1, tsc2,
                                             mode1, mode2)
       IN  IF prompt.kind = "text"
           THEN /\ pc' = "for"
                /\ result' = ReturnedList(Append(result.sets, prompt.text))
                /\ UNCHANGED stack
           ELSE /\ pc' = "datasets"
                /\ result' = prompt
                /\ stack' = <<>>
    /\ attempts' = 0
    /\ UNCHANGED <<genvars, calls, last, scenario, target_count,
                   selected_factors, index, factor, tsc_type, scorevars>>

\* line 154 returning to update_tsc: lines 267-271, or 275-278 / 286-289
UpdateReturn ==
    LET internal_mode == MapMode(last.mode, "reordered")
        is_tsc1 == tsc_type = "TSC1"
    IN  /\ pc = "return"
        /\ Head(stack) = "update_tsc"
        /\ IF internal_mode = "reordered" /\ is_tsc1
           THEN /\ pc' = "generate_tsc_factor"
                /\ tsc1' = selected_factors
                /\ origin1' = Origin("arguable", TRUE, 1)
                /\ tsc_type' = "TSC2"
                /\ UNCHANGED <<tsc2, origin2>>
           ELSE IF internal_mode = "reordered"
           THEN /\ pc' = "render"
                /\ tsc1' = selected_factors
                /\ origin1' = Origin("arguable", FALSE, 2)
                /\ tsc2' = tsc1
                /\ origin2' = origin1
                /\ UNCHANGED tsc_type
           ELSE /\ pc' = IF internal_mode = "unarguable" THEN "retry"
                         ELSE "render"
                /\ IF is_tsc1
                   THEN /\ tsc1' = selected_factors
                        /\ origin1' = Origin(internal_mode, TRUE, 1)
                        /\ UNCHANGED <<tsc2, origin2>>
                   ELSE /\ tsc2' = selected_factors
                        /\ origin2' = Origin(internal_mode, FALSE, 1)
                        /\ UNCHANGED <<tsc1, origin1>>
                /\ UNCHANGED tsc_type
        /\ SelectionOver
        /\ UNCHANGED <<mode1, mode2, complexity, input_factors, calls, last,
                       result, stack, scenario, attempts, scorevars>>

\* lines 279-284 / 290-295: one test of the while condition, and the
\* regeneration it leads to (Unarguable mode: no selection loop)
UpdateRetry ==
    LET is_tsc1 == tsc_type = "TSC1"
        tsc == IF is_tsc1 THEN tsc1 ELSE tsc2
    IN  /\ pc = "retry"
        /\ IF Overlaps(input_factors, tsc) /\ attempts < MaxAttempts
           THEN /\ \E t \in generate_tsc_factor(input_factors, "unarguable",
                                                is_tsc1, complexity) :
                      IF is_tsc1
                      THEN /\ tsc1' = t
                           /\ origin1' = Origin("unarguable", TRUE,
                                                2 + attempts)
                           /\ UNCHANGED <<tsc2, origin2>>
                      ELSE /\ tsc2' = t
                           /\ origin2' = Origin("unarguable", FALSE,
                                                2 + attempts)
                           /\ UNCHANGED <<tsc1, origin1>>
                /\ attempts' = attempts + 1
                /\ UNCHANGED pc
           ELSE /\ pc' = "render"
                /\ UNCHANGED <<tsc1, tsc2, origin1, origin2, attempts>>
        /\ UNCHANGED <<mode1, mode2, complexity, input_factors, calls, last,
                       result, stack, scenario, target_count,
                       selected_factors, index, factor, tsc_type, scorevars>>

\* lines 299-335
UpdateRender ==
    /\ pc = "render"
    /\ pc' = "generator"
    /\ stack' = <<>>
    /\ result' = Returned(UpdateText(input_factors, tsc1, tsc2,
                                     MapMode(last.mode, "reordered")))
    /\ attempts' = 0
    /\ tsc_type' = "none"
    /\ UNCHANGED <<genvars, calls, last, scenario, target_count,
                   selected_factors, index, factor, scorevars>>

\* the statements of an operation in progress
Steps ==
    \/ DatasetFor \/ InputTarget \/ InputAccept \/ InputReject
    \/ InputReturn \/ TscStart \/ FillAccept \/ FillReject \/ FillReturn
    \/ ScenarioTsc1Return \/ ScenarioReturn \/ DatasetCheck
    \/ DatasetPrompt \/ UpdateReturn \/ UpdateRetry \/ UpdateRender

\* the calls a program makes
Calls ==
    \/ \E m1, m2 \in InternalModes, c \in LoopComplexities :
          LoopNew(m1, m2, c)
    \/ LoopRestart
    \/ \E tsc_name \in TscNames, mode \in InternalModes :
          LoopUpdateTsc(tsc_name, mode)
    \/ \E mode \in InternalModes, n \in 0..MaxCases,
          c \in LoopComplexities : LoopGenerateDatasets(mode, n, c)

NextLoops == Calls \/ Steps

\* An operation in progress keeps running (single-threaded, synchronous
\* code), and a selection loop that can still draw an acceptable value
\* eventually draws one: every draw is uniform over the catalog, so each
\* acceptable value has the same positive probability at every iteration.
Fairness ==
    /\ WF_vars(Steps)
    /\ WF_vars(InputAccept)
    /\ WF_vars(FillAccept)

SpecLoops == Init /\ [][NextLoops]_vars /\ Fairness

-----------------------------------------------------------------------------
(* score_calculation.py: the counts of one scoring row.  A label is a       *)
(* number standing for one factor string; the code compares labels by       *)
(* string equality.                                                         *)

Labels == 1..MaxLabels

\* the lists of distinct labels in one order: the code only tests membership
\* in an actual list and takes its length
LabelLists ==
    {l \in UNION {[1..n -> Labels] : n \in 0..MaxLabels} :
        \A i, j \in DOMAIN l : i < j => l[i] < l[j]}

\* what process_csv_row returns: the lists under 'Input', 'TSC1', 'TSC2'
ActualRows == [{"Input", "TSC1", "TSC2"} -> LabelLists]

\* what process_distilled_factors returns: under 'Input Case', 'TSC1' and
\* 'TSC2' a dict whose keys are the claimed labels, here the set of its keys
DistilledRows == [{"Input Case", "TSC1", "TSC2"} -> SUBSET Labels]

\* list(d.keys())
RECURSIVE keys(_)
keys(d) ==
    IF d = {} THEN <<>>
    ELSE LET k == CHOOSE x \in d : \A y \in d : x <= y
         IN  <<k>> \o keys(d \ {k})

\* for factor in claimed: if factor not in actual: mismatch += 1
RECURSIVE CountNotIn(_, _)
CountNotIn(claimed, actual) ==
    IF claimed = <<>> THEN 0
    ELSE (IF Head(claimed) \notin Range(actual) THEN 1 ELSE 0)
         + CountNotIn(Tail(claimed), actual)

\* as count_factor_mismatches, but the TSC2 loop tests against the TSC1 list
count_factor_mismatches_Tsc1Twice(actual, distilled) ==
    LET distilled_input_factors == keys(distilled["Input Case"])
        distilled_tsc1_factors == keys(distilled["TSC1"])
        distilled_tsc2_factors == keys(distilled["TSC2"])
    IN  << CountNotIn(distilled_input_factors, actual["Input"]),
           CountNotIn(distilled_tsc1_factors, actual["TSC1"]),
           CountNotIn(distilled_tsc2_factors, actual["TSC1"]),
           Len(actual["Input"]) + Len(actual["TSC1"]) + Len(actual["TSC2"]),
           Len(distilled_input_factors) + Len(distilled_tsc1_factors)
               + Len(distilled_tsc2_factors) >>

\* count_factor_mismatches(input_factors, distilled_factors), lines 126-166:
\* <<input_mismatch, tsc1_mismatch, tsc2_mismatch, original_total_factors,
\*   distilled_total_factors>>
count_factor_mismatches(actual, distilled) ==
    LET distilled_input_factors == keys(distilled["Input Case"])
        distilled_tsc1_factors == keys(distilled["TSC1"])
        distilled_tsc2_factors == keys(distilled["TSC2"])
    IN  << CountNotIn(distilled_input_factors, actual["Input"]),
           CountNotIn(distilled_tsc1_factors, actual["TSC1"]),
           CountNotIn(distilled_tsc2_factors, actual["TSC2"]),
           Len(actual["Input"]) + Len(actual["TSC1"]) + Len(actual["TSC2"]),
           Len(distilled_input_factors) + Len(distilled_tsc1_factors)
               + Len(distilled_tsc2_factors) >>

\* as count_factor_weaknesses, but each loop runs over the claimed labels and
\* tests them against the actual list
count_factor_weaknesses_Claimed(actual, distilled) ==
    LET distilled_input_factors == keys(distilled["Input Case"])
        distilled_tsc1_factors == keys(distilled["TSC1"])
        distilled_tsc2_factors == keys(distilled["TSC2"])
    IN  << CountNotIn(distilled_input_factors, actual["Input"]),
           CountNotIn(distilled_tsc1_factors, actual["TSC1"]),
           CountNotIn(distilled_tsc2_factors, actual["TSC2"]),
           Len(actual["Input"]) + Len(actual["TSC1"]) + Len(actual["TSC2"]),
           Len(distilled_input_factors) + Len(distilled_tsc1_factors)
               + Len(distilled_tsc2_factors) >>

\* count_factor_weaknesses(input_factors, distilled_factors), lines 168-208:
\* <<input_weakness, tsc1_weakness, tsc2_weakness, original_total_factors,
\*   distilled_total_factors>>
count_factor_weaknesses(actual, distilled) ==
    LET distilled_input_factors == keys(distilled["Input Case"])
        distilled_tsc1_factors == keys(distilled["TSC1"])
        distilled_tsc2_factors == keys(distilled["TSC2"])
    IN  << CountNotIn(actual["Input"], distilled_input_factors),
           CountNotIn(actual["TSC1"], distilled_tsc1_factors),
           CountNotIn(actual["TSC2"], distilled_tsc2_factors),
           Len(actual["Input"]) + Len(actual["TSC1"]) + Len(actual["TSC2"]),
           Len(distilled_input_factors) + Len(distilled_tsc1_factors)
               + Len(distilled_tsc2_factors) >>

-----------------------------------------------------------------------------
(* calculate_scores (pipeline.py).  Numbers are exact rationals in lowest   *)
(* terms; a division by zero gives ZeroDivision, the exception Python      *)
(* raises.                                                                 *)

ZeroDivision == [num |-> 0, den |-> 0]

\* n / d, in lowest terms
Ratio(n, d) ==
    LET RECURSIVE gcd(_, _)
        gcd(a, b) == IF b = 0 THEN a ELSE gcd(b, a % b)
        g == gcd(IF n < 0 THEN 0 - n ELSE n, d)
    IN  IF d = 0 THEN ZeroDivision
        ELSE [num |-> n \div g, den |-> d \div g]

Zero == Ratio(0, 1)

One == Ratio(1, 1)

\* x * k
Times(x, k) == IF x = ZeroDivision THEN x ELSE Ratio(x.num * k, x.den)

\* x + y
Plus(x, y) ==
    IF x = ZeroDivision \/ y = ZeroDivision THEN ZeroDivision
    ELSE Ratio(x.num * y.den + y.num * x.den, x.den * y.den)

\* x / k
Over(x, k) == IF x = ZeroDivision THEN x ELSE Ratio(x.num, x.den * k)

RECURSIVE SumRatios(_)
SumRatios(xs) == IF xs = <<>> THEN Zero ELSE Plus(Head(xs), SumRatios(Tail(xs)))

\* the mode strings a file name can carry, and mode.lower()
ScoreModes == {"unarguable", "Non-Arguable", "arguable", "reordered", "unknown"}

\* as lower, but the mode is left as it is written
lower_AsWritten(mode) == mode

lower(mode) == IF mode = "Non-Arguable" THEN "non-arguable" ELSE mode

\* as row_accuracy, but the fraction itself instead of its complement
row_accuracy_Fraction(total_mismatches, total_factors_in_row) ==
    IF total_factors_in_row > 0
    THEN Ratio(total_mismatches, total_factors_in_row)
    ELSE Zero

\* line 201: 1 - total_mismatches / total_factors_in_row
\*           if total_factors_in_row > 0 else 0
row_accuracy(total_mismatches, total_factors_in_row) ==
    IF total_factors_in_row > 0
    THEN Ratio(total_factors_in_row - total_mismatches, total_factors_in_row)
    ELSE Zero

\* as successful_abstention, but the test of process_csv_file (nothing is
\* claimed)
successful_abstention_NoClaims(total_weaknesses, dist_factors) ==
    dist_factors = 0

\* line 203: total_weaknesses == 0 and dist_factors == 0
successful_abstention(total_weaknesses, dist_factors) ==
    total_weaknesses = 0 /\ dist_factors = 0

\* as row_strength, but the mode is compared as it is written
row_strength_CaseSensitive(mode, orig_factors, dist_factors, total_weaknesses, total_factors_in_row) ==
    IF mode \in {"non-arguable", "unarguable"}
    THEN IF orig_factors > 0
         THEN Ratio(orig_factors - dist_factors, orig_factors)
         ELSE IF dist_factors = 0 THEN One ELSE Zero
    ELSE IF total_factors_in_row > 0
         THEN Ratio(total_factors_in_row - total_weaknesses,
                    total_factors_in_row)
         ELSE Zero

\* lines 206-217
row_strength(mode, orig_factors, dist_factors, total_weaknesses, total_factors_in_row) ==
    IF lower(mode) \in {"non-arguable", "unarguable"}
    THEN IF orig_factors > 0
         THEN Ratio(orig_factors - dist_factors, orig_factors)
         ELSE IF dist_factors = 0 THEN One ELSE Zero
    ELSE IF total_factors_in_row > 0
         THEN Ratio(total_factors_in_row - total_weaknesses,
                    total_factors_in_row)
         ELSE Zero

\* the body of the loop over the rows, lines 193-217, for a row whose cells
\* have been returned
calculate_scores_row(mode, actual, distilled) ==
    LET mm == count_factor_mismatches(actual, distilled)
        total_mismatches == mm[1] + mm[2] + mm[3]
        orig_factors == mm[4]
        dist_factors == mm[5]
        ww == count_factor_weaknesses(actual, distilled)
        total_weaknesses == ww[1] + ww[2] + ww[3]
        total_factors_in_row ==
            Len(actual["Input"]) + Len(actual["TSC1"]) + Len(actual["TSC2"])
    IN  [total_mismatches |-> total_mismatches,
         total_weaknesses |-> total_weaknesses,
         orig_factors |-> orig_factors,
         dist_factors |-> dist_factors,
         total_factors_in_row |-> total_factors_in_row,
         accuracy |-> row_accuracy(total_mismatches, total_factors_in_row),
         abstention |-> successful_abstention(total_weaknesses, dist_factors),
         strength |-> row_strength(mode, orig_factors, dist_factors,
                                   total_weaknesses, total_factors_in_row)]

\* as mean, but without the test for the empty list
mean_Unguarded(xs) == Over(SumRatios(xs), Len(xs))

\* np.mean(xs) if xs else 0, lines 228-229
mean(xs) == IF xs # <<>> THEN Over(SumRatios(xs), Len(xs)) ELSE Zero

\* calculate_scores, lines 177-265, on the scores of the rows of the file:
\* the accumulations of lines 219-225 and the report
calculate_scores(mode, scores) ==
    LET RECURSIVE SumInts(_)
        SumInts(xs) == IF xs = <<>> THEN 0 ELSE Head(xs) + SumInts(Tail(xs))
        total_rows == Len(scores)
        all_accuracies == [i \in DOMAIN scores |-> Times(scores[i].accuracy, 100)]
        all_strengths == [i \in DOMAIN scores |-> Times(scores[i].strength, 100)]
        successful_abstention_count ==
            Cardinality({i \in DOMAIN scores : scores[i].abstention})
    IN  [total_rows |-> total_rows,
         successful_abstention_count |-> successful_abstention_count,
         accuracy |-> mean(all_accuracies),
         strength |-> mean(all_strengths),
         original_factors |->
             SumInts([i \in DOMAIN scores |-> scores[i].orig_factors]),
         distilled_factors |->
             SumInts([i \in DOMAIN scores |-> scores[i].dist_factors]),
         total_mismatches |->
             SumInts([i \in DOMAIN scores |-> scores[i].total_mismatches]),
         total_weaknesses |->
             SumInts([i \in DOMAIN scores |-> scores[i].total_weaknesses]),
         successful_abstention_ratio |->
             IF total_rows > 0
             THEN Times(Ratio(successful_abstention_count, total_rows), 100)
             ELSE Zero,
         has_ratio |-> lower(mode) \in {"non-arguable", "unarguable"}]

\* the file holds one row, which has been read: its actual and claimed
\* factors are any of the above; or the file holds no row
InitScore ==
    /\ mode1 = "none"
    /\ mode2 = "none"
    /\ complexity = 0
    /\ input_factors = <<>>
    /\ tsc1 = <<>>
    /\ tsc2 = <<>>
    /\ origin1 = NoOrigin
    /\ origin2 = NoOrigin
    /\ calls = 0
    /\ last = Call("process_csv_row", "none", "none", 0)
    /\ result = NoResult
    /\ NoCallInProgress
    /\ \/ /\ pc = "row"
          /\ row_factors \in ActualRows
          /\ distilled_factors \in DistilledRows
       \/ /\ pc = "norows"
          /\ row_factors = <<>>
          /\ distilled_factors = <<>>
    /\ mismatches = <<>>
    /\ weaknesses = <<>>
    /\ row_score = <<>>
    /\ report = <<>>
    /\ row_scores = <<>>
    /\ cell = <<>>
    /\ grammar = <<>>
    /\ returned = <<>>

\* mismatches = count_factor_mismatches(row_factors, distilled_factors)
CountFactorMismatches ==
    /\ pc = "row"
    /\ pc' = "counted"
    /\ mismatches' = count_factor_mismatches(row_factors, distilled_factors)
    /\ last' = Call("count_factor_mismatches", "none", "none", 0)
    /\ UNCHANGED <<genvars, calls, result, loopvars, row_scores, row_factors,
                   distilled_factors, weaknesses, row_score, report, cell,
                   grammar, returned>>

\* weaknesses = count_factor_weaknesses(row_factors, distilled_factors)
CountFactorWeaknesses ==
    /\ pc = "row"
    /\ pc' = "weighed"
    /\ weaknesses' = count_factor_weaknesses(row_factors, distilled_factors)
    /\ last' = Call("count_factor_weaknesses", "none", "none", 0)
    /\ UNCHANGED <<genvars, calls, result, loopvars, row_scores, row_factors,
                   distilled_factors, mismatches, row_score, report, cell,
                   grammar, returned>>

\* calculate_scores on the file, whose name carries the given mode
CalculateScores(mode) ==
    /\ pc \in {"row", "norows"}
    /\ pc' = "reported"
    /\ LET scores == IF pc = "row"
                     THEN <<calculate_scores_row(mode, row_factors,
                                                 distilled_factors)>>
                     ELSE <<>>
       IN  /\ row_score' = IF pc = "row" THEN scores[1] ELSE row_score
           /\ report' = calculate_scores(mode, scores)
    /\ mismatches' = IF pc = "row"
                     THEN count_factor_mismatches(row_factors, distilled_factors)
                     ELSE mismatches
    /\ weaknesses' = IF pc = "row"
                     THEN count_factor_weaknesses(row_factors, distilled_factors)
                     ELSE weaknesses
    /\ last' = Call("calculate_scores", mode, "none", 0)
    /\ UNCHANGED <<genvars, calls, result, loopvars, row_scores, row_factors,
                   distilled_factors, cell, grammar, returned>>

-----------------------------------------------------------------------------
(* process_csv_file (score_calculation.py), the other scoring path.        *)

\* the body of the loop over the rows, lines 236-262, for a row whose cells
\* have been returned
process_csv_file_row(actual, distilled) ==
    LET mm == count_factor_mismatches(actual, distilled)
        total_mismatches == mm[1] + mm[2] + mm[3]
        orig_factors == mm[4]
        dist_factors == mm[5]
        ww == count_factor_weaknesses(actual, distilled)
        total_weaknesses == ww[1] + ww[2] + ww[3]
    IN  [total_mismatches |-> total_mismatches,
         total_weaknesses |-> total_weaknesses,
         orig_factors |-> orig_factors,
         dist_factors |-> dist_factors,
         total_factors |->
             Len(actual["Input"]) + Len(actual["TSC1"]) + Len(actual["TSC2"]),
         abstention |-> /\ distilled["Input Case"] = {}
                        /\ distilled["TSC1"] = {}
                        /\ distilled["TSC2"] = {},
         accuracy |-> IF orig_factors > 0
                      THEN Ratio(orig_factors - total_mismatches, orig_factors)
                      ELSE Zero,
         strength |-> IF orig_factors > 0
                      THEN Ratio(orig_factors - total_weaknesses, orig_factors)
                      ELSE Zero]

\* process_csv_file, lines 210-281, on the rows of the file: what it returns,
\* with the locals successful_abstention_count, all_accuracies and
\* all_strengths
process_csv_file(rows) ==
    LET RECURSIVE SumInts(_)
        SumInts(xs) == IF xs = <<>> THEN 0 ELSE Head(xs) + SumInts(Tail(xs))
        total_rows == Len(rows)
        all_accuracies == [i \in DOMAIN rows |-> Times(rows[i].accuracy, 100)]
        all_strengths == [i \in DOMAIN rows |-> Times(rows[i].strength, 100)]
        successful_abstention_count ==
            Cardinality({i \in DOMAIN rows : rows[i].abstention})
    IN  [kind |-> "scores",
         all_factors |-> SumInts([i \in DOMAIN rows |-> rows[i].total_factors]),
         all_original_factors |->
             SumInts([i \in DOMAIN rows |-> rows[i].orig_factors]),
         all_distilled_factors |->
             SumInts([i \in DOMAIN rows |-> rows[i].dist_factors]),
         all_mismatches |->
             SumInts([i \in DOMAIN rows |-> rows[i].total_mismatches]),
         all_weaknesses |->
             SumInts([i \in DOMAIN rows |-> rows[i].total_weaknesses]),
         mean_acc |-> mean(all_accuracies),
         mean_strength |-> mean(all_strengths),
         successful_abstention_ratio |->
             IF total_rows > 0
             THEN Ratio(successful_abstention_count, total_rows)
             ELSE Zero,
         successful_abstention_count |-> successful_abstention_count,
         all_accuracies |-> all_accuracies,
         all_strengths |-> all_strengths]

\* process_csv_file on the file
ProcessCsvFile ==
    /\ pc \in {"row", "norows"}
    /\ pc' = "processed"
    /\ result' = process_csv_file(
                     IF pc = "row"
                     THEN <<process_csv_file_row(row_factors,
                                                 distilled_factors)>>
                     ELSE <<>>)
    /\ last' = Call("process_csv_file", "none", "none", 0)
    /\ UNCHANGED <<genvars, calls, loopvars, scorevars>>

NextScore ==
    \/ CountFactorMismatches
    \/ CountFactorWeaknesses
    \/ ProcessCsvFile
    \/ \E mode \in ScoreModes : CalculateScores(mode)

SpecScore == InitScore /\ [][NextScore]_vars

-----------------------------------------------------------------------------
(* calculate_scores followed row by row over a file of several rows.  Only  *)
(* the values the loop computes for a row are kept, not the row's cells.   *)

\* the rows of a scoring file
MaxRows == 2

\* calculate_scores has been called on a file whose name carries the mode
\* and stands before the loop over the rows
InitFile ==
    /\ pc = "file"
    /\ mode1 = "none"
    /\ mode2 = "none"
    /\ complexity = 0
    /\ input_factors = <<>>
    /\ tsc1 = <<>>
    /\ tsc2 = <<>>
    /\ origin1 = NoOrigin
    /\ origin2 = NoOrigin
    /\ calls = 0
    /\ \E mode \in ScoreModes : last = Call("calculate_scores", mode, "none", 0)
    /\ result = NoResult
    /\ NoCallInProgress
    /\ NoRow

\* one pass of the loop of lines 186-225 on the next row of the file
ScoreRow ==
    /\ pc = "file"
    /\ Len(row_scores) < MaxRows
    /\ \E actual \in ActualRows, distilled \in DistilledRows :
           row_score' = calculate_scores_row(last.mode, actual, distilled)
    /\ row_scores' = Append(row_scores, row_score')
    /\ UNCHANGED <<pc, genvars, calls, last, result, loopvars, row_factors,
                   distilled_factors, mismatches, weaknesses, report, cell,
                   grammar, returned>>

\* the file has no further row: lines 227-265
Report ==
    /\ pc = "file"
    /\ pc' = "reported"
    /\ report' = calculate_scores(last.mode, row_scores)
    /\ UNCHANGED <<genvars, calls, last, result, loopvars, row_scores,
                   row_factors, distilled_factors, mismatches, weaknesses,
                   row_score, cell, grammar, returned>>

NextFile == ScoreRow \/ Report

SpecFile == InitFile /\ [][NextFile]_vars

-----------------------------------------------------------------------------
(* process_distilled_factors (score_calculation.py) on the text of a claim  *)
(* cell.  A text is a sequence of tokens: the marker "</think>", braces,    *)
(* the double quote, colon, comma, white space, and runs of other          *)
(* characters (key names and label words), none of which holds a brace or  *)
(* a quote.                                                                *)

\* the tokens other than words; words hold no brace and no quote
Token ==
    [think |-> Word("</think>"), quote |-> Word("\""), lbrace |-> Word("{"),
     rbrace |-> Word("}"), colon |-> Word(":"), comma |-> Word(","),
     space |-> Word(" "), newline |-> Word("\n")]

\* a label word
LabelTok(i) == Tok("label", i)

\* the text of label i: label 2 holds a colon and a space
LabelText(i) ==
    IF i = 2 THEN <<LabelTok(2), Token.colon, Token.space, LabelTok(2)>>
    ELSE <<LabelTok(i)>>

\* a cell of the data frame: a string, or NaN where the CSV field is empty
Str(text) == [kind |-> "str", text |-> text]

NaN == [kind |-> "nan", text |-> <<>>]

\* the three-key mapping process_distilled_factors returns: each dict is
\* represented by the set of its keys
Dict(inp, t1, t2) ==
    [kind |-> "dict", d |-> [k \in {"Input Case", "TSC1", "TSC2"} |->
        IF k = "Input Case" THEN inp ELSE IF k = "TSC1" THEN t1 ELSE t2]]

\* the exception an operation raised instead of returning
Exception(exc) ==
    [kind |-> exc, d |-> [k \in {"Input Case", "TSC1", "TSC2"} |-> {}]]

\* \s
IsWhite(tok) == tok.kind \in {" ", "\t", "\n"}

\* text.strip()
StripText(text) ==
    LET nonblank == {i \in DOMAIN text : ~IsWhite(text[i])}
    IN  IF nonblank = {} THEN <<>>
        ELSE SubSeq(text, CHOOSE i \in nonblank : \A j \in nonblank : i <= j,
                          CHOOSE i \in nonblank : \A j \in nonblank : j <= i)

\* the least index from i on whose token is of the given kind; 0 if none
IndexFrom(text, kind, i) ==
    LET at == {j \in i..Len(text) : text[j].kind = kind}
    IN  IF at = {} THEN 0 ELSE CHOOSE j \in at : \A k \in at : j <= k

\* as RemoveThink, but the text before the marker is kept
RemoveThink_Keep(text) == text

\* lines 79-81: row_text.find("</think>") and the cut after it
RemoveThink(text) ==
    LET think_end == IndexFrom(text, "</think>", 1)
    IN  IF think_end # 0
        THEN StripText(SubSeq(text, think_end + 1, Len(text)))
        ELSE text

NoMatch == [found |-> FALSE, group |-> <<>>]

Match(group) == [found |-> TRUE, group |-> group]

\* re.search(r'\{.*\}', text, re.DOTALL): from the first opening brace to
\* the last closing brace after it
SearchObject(text) ==
    LET open == IndexFrom(text, "{", 1)
        closes == {j \in DOMAIN text : text[j] = Token.rbrace /\ j > open}
    IN  IF open = 0 \/ closes = {} THEN NoMatch
        ELSE Match(SubSeq(text, open,
                          CHOOSE j \in closes : \A k \in closes : k <= j))

\* the least index from i on whose token is not white space (Len + 1 if
\* there is none)
RECURSIVE SkipWhite(_, _)
SkipWhite(text, i) ==
    IF i <= Len(text) /\ IsWhite(text[i]) THEN SkipWhite(text, i + 1) ELSE i

\* the pattern "key"\s*:\s*{(.*?)} matched at index i: the group is the text
\* up to the first closing brace
MatchKeyAt(key, text, i) ==
    IF ~(i + 2 <= Len(text) /\ text[i] = Token.quote
           /\ text[i + 1] = Word(key) /\ text[i + 2] = Token.quote)
    THEN NoMatch
    ELSE LET colon == SkipWhite(text, i + 3)
         IN  IF ~(colon <= Len(text) /\ text[colon] = Token.colon)
             THEN NoMatch
             ELSE LET open == SkipWhite(text, colon + 1)
                  IN  IF ~(open <= Len(text) /\ text[open] = Token.lbrace)
                      THEN NoMatch
                      ELSE LET close == IndexFrom(text, "}", open + 1)
                           IN  IF close = 0 THEN NoMatch
                               ELSE Match(SubSeq(text, open + 1, close - 1))

\* re.search(r'"key"\s*:\s*{(.*?)}', text, re.DOTALL): the leftmost match
SearchKey(key, text) ==
    LET at == {i \in DOMAIN text : MatchKeyAt(key, text, i).found}
    IN  IF at = {} THEN NoMatch
        ELSE MatchKeyAt(key, text, CHOOSE i \in at : \A j \in at : i <= j)

\* re.findall(r'"([^"]+)"', text): scanning from index i, a quote opens a
\* match if the next quote is not the next token; the scan resumes after
\* the closing quote
RECURSIVE FindAllQuoted(_, _)
FindAllQuoted(text, i) ==
    IF i > Len(text) THEN <<>>
    ELSE IF text[i] # Token.quote THEN FindAllQuoted(text, i + 1)
    ELSE LET close == IndexFrom(text, "\"", i + 1)
         IN  IF close = 0 \/ close = i + 1 THEN FindAllQuoted(text, i + 1)
             ELSE <<SubSeq(text, i + 1, close - 1)>>
                      \o FindAllQuoted(text, close + 1)

\* {factor: None for factor in factors} for a match, {} otherwise
FactorsOf(m) == IF m.found THEN Range(FindAllQuoted(m.group, 1)) ELSE {}

\* process_distilled_factors(row_text), lines 69-124
process_distilled_factors(value) ==
    IF value.kind # "str" THEN Exception("AttributeError")
    ELSE LET row_text == RemoveThink(value.text)
             json_content == SearchObject(row_text)
         IN  IF ~json_content.found THEN Dict({}, {}, {})
             ELSE LET json_text == json_content.group
                  IN  Dict(FactorsOf(SearchKey("Input Case", json_text)),
                           FactorsOf(SearchKey("TSC1", json_text)),
                           FactorsOf(SearchKey("TSC2", json_text)))

\* calculate_scores, lines 188-191: a NaN cell is read as '{}'
calculate_scores_cell(value) ==
    IF value.kind = "nan" THEN Str(<<Token.lbrace, Token.rbrace>>) ELSE value

\* sep.join(parts)
RECURSIVE JoinTexts(_, _)
JoinTexts(parts, sep) ==
    IF parts = <<>> THEN <<>>
    ELSE IF Len(parts) = 1 THEN parts[1]
    ELSE parts[1] \o sep \o JoinTexts(Tail(parts), sep)

\* the documented claim text (single_agent_factor.py, lines 130-155): after
\* an optional reasoning trace closed by the marker, one object whose keys
\* map to brace-delimited lists of quoted labels
RenderLabels(labels) ==
    <<Token.lbrace>>
        \o JoinTexts([i \in DOMAIN labels |->
                          <<Token.quote>> \o LabelText(labels[i])
                              \o <<Token.quote>>],
                     <<Token.comma, Token.space>>)
        \o <<Token.rbrace>>

RenderEntry(key, labels) ==
    <<Token.quote, Word(key), Token.quote, Token.colon, Token.space>>
        \o RenderLabels(labels)

\* an object: under each key a list of labels, or <<0>> for an absent key
Absent == <<0>>

RenderObject(obj) ==
    LET present == SelectSeq(<<"Input Case", "TSC1", "TSC2">>,
                             LAMBDA k : obj[k] # Absent)
    IN  <<Token.lbrace, Token.newline>>
            \o JoinTexts([i \in DOMAIN present |->
                              RenderEntry(present[i], obj[present[i]])],
                         <<Token.comma, Token.newline>>)
            \o <<Token.newline, Token.rbrace>>

\* the lists of distinct labels, in any order
ClaimLists ==
    {l \in UNION {[1..n -> Labels] : n \in 0..MaxLabels} :
        \A i, j \in DOMAIN l : i # j => l[i] # l[j]}

Objects == [{"Input Case", "TSC1", "TSC2"} -> ClaimLists \cup {Absent}]

\* reasoning traces: none; an empty one; words; an object of its own; an
\* unclosed brace and quote
Traces ==
    { <<>>,
      <<Token.think, Token.newline>>,
      <<LabelTok(1), Token.space, Token.think, Token.newline>>,
      RenderObject([k \in {"Input Case", "TSC1", "TSC2"} |->
                       IF k = "TSC1" THEN <<1>> ELSE Absent])
          \o <<Token.think, Token.newline>>,
      <<Token.lbrace, Token.quote, Word("TSC2"), Token.think, Token.newline>> }

RenderClaims(trace, obj) == trace \o RenderObject(obj)

\* texts outside the grammar: every text of at most MaxTokens tokens, and
\* every prefix of a documented text
MaxTokens == 3

Alphabet ==
    {Token.think, Token.quote, Token.lbrace, Token.rbrace, Token.colon,
     Token.comma, Token.space, Word("TSC1"),
     LabelTok(1)}

ShortTexts == UNION {[1..n -> Alphabet] : n \in 0..MaxTokens}

Prefixes ==
    LET FullText ==
            RenderClaims(<<LabelTok(1), Token.space, Token.think, Token.newline>>,
                         [k \in {"Input Case", "TSC1", "TSC2"} |->
                             IF k = "TSC2" THEN <<>> ELSE <<1, 2>>])
    IN  {SubSeq(FullText, 1, n) : n \in 0..Len(FullText)}

NoGrammar == [trace |-> <<>>, obj |-> <<>>]

\* a claim cell has been read from the file
InitDistill ==
    /\ pc = "cell"
    /\ mode1 = "none"
    /\ mode2 = "none"
    /\ complexity = 0
    /\ input_factors = <<>>
    /\ tsc1 = <<>>
    /\ tsc2 = <<>>
    /\ origin1 = NoOrigin
    /\ origin2 = NoOrigin
    /\ calls = 0
    /\ last = Call("read_csv", "none", "none", 0)
    /\ result = NoResult
    /\ NoCallInProgress
    /\ row_factors = <<>>
    /\ distilled_factors = <<>>
    /\ mismatches = <<>>
    /\ weaknesses = <<>>
    /\ row_score = <<>>
    /\ report = <<>>
    /\ row_scores = <<>>
    /\ returned = <<>>
    /\ \/ \E trace \in Traces, obj \in Objects :
              /\ cell = Str(RenderClaims(trace, obj))
              /\ grammar = [trace |-> trace, obj |-> obj]
       \/ /\ cell \in {Str(t) : t \in ShortTexts \cup Prefixes} \cup {NaN}
          /\ grammar = NoGrammar

\* process_distilled_factors as the given scoring path calls it on the cell
Distill(path, argument) ==
    /\ pc = "cell"
    /\ pc' = "distilled"
    /\ returned' = process_distilled_factors(argument)
    /\ last' = Call(path, "none", "none", 0)
    /\ UNCHANGED <<genvars, calls, result, loopvars, row_scores, row_factors,
                   distilled_factors, mismatches, weaknesses, row_score,
                   report, cell, grammar>>

\* the loop body of calculate_scores up to line 191, and the loop body of
\* process_csv_file up to line 234, which passes the cell as it is
NextDistill ==
    \/ Distill("calculate_scores", calculate_scores_cell(cell))
    \/ Distill("process_csv_file", cell)

SpecDistill == InitDistill /\ [][NextDistill]_vars

-----------------------------------------------------------------------------
(* extract_case_factors (score_calculation.py) on the text of a scenario    *)
(* cell: a sequence of lines, each a sequence of tokens.                    *)

\* the lines of a scenario cell
MaxLines == 3

\* a header written as the generator writes it, with more white space, and
\* in small letters
HeaderWords ==
    {"Input Scenario", "Input   Scenario", "input scenario",
     "TSC 1", "TSC   1", "tsc   1",
     "TSC 2", "TSC   2", "tsc 2"}

\* header lines, factor lines (indented, or ending in a comma), a line
\* holding a header and a factor, a line of other words, and blank lines
ScenarioLines ==
    {<<Word(w)>> : w \in HeaderWords}
        \cup {<<Word("\t"), FactorTok(f)>> : f \in Range(factors)}
        \cup {<<FactorTok(f), Word(",")>> : f \in Range(factors)}
        \cup {<<Word("TSC 2"), Word(" "), FactorTok(factors[1])>>,
              <<Word("outcome Plaintiff")>>,
              <<Word(" ")>>}

ScenarioTexts == UNION {[1..n -> ScenarioLines] : n \in 0..MaxLines}

\* a scenario cell has been read from the file
InitExtract ==
    /\ pc = "cell"
    /\ mode1 = "none"
    /\ mode2 = "none"
    /\ complexity = 0
    /\ input_factors = <<>>
    /\ tsc1 = <<>>
    /\ tsc2 = <<>>
    /\ origin1 = NoOrigin
    /\ origin2 = NoOrigin
    /\ calls = 0
    /\ last = Call("read_csv", "none", "none", 0)
    /\ result = NoResult
    /\ NoCallInProgress
    /\ row_factors = <<>>
    /\ distilled_factors = <<>>
    /\ mismatches = <<>>
    /\ weaknesses = <<>>
    /\ row_score = <<>>
    /\ report = <<>>
    /\ row_scores = <<>>
    /\ returned = <<>>
    /\ grammar = NoGrammar
    /\ cell \in {Str(t) : t \in ScenarioTexts}

\* returned = extract_case_factors(cell), with current_section as the pass
\* leaves it
ExtractCaseFactors ==
    /\ pc = "cell"
    /\ pc' = "extracted"
    /\ returned' = extract_case_factors(cell.text)
    /\ last' = Call("extract_case_factors", "none", "none", 0)
    /\ UNCHANGED <<genvars, calls, result, loopvars, row_scores, row_factors,
                   distilled_factors, mismatches, weaknesses, row_score,
                   report, cell, grammar>>

NextExtract == ExtractCaseFactors

SpecExtract == InitExtract /\ [][NextExtract]_vars

-----------------------------------------------------------------------------
(* Properties.                                                             *)

\* C1: a comparison list returned by an Unarguable-mode generation
\* (constructor, restart, update_tsc, or the generator of generate_datasets)
\* shares no factor with input_factors.
C1_UnarguableDisjoint ==
    /\ origin1.mode = "unarguable" => ~Overlaps(input_factors, tsc1)
    /\ origin2.mode = "unarguable" => ~Overlaps(input_factors, tsc2)

\* an Unarguable generator whose tsc1 was replaced by an Unarguable update
C1_Witness ==
    /\ pc = "generator"
    /\ mode1 = "unarguable" /\ mode2 = "unarguable"
    /\ last.op = "update_tsc" /\ last.tsc_name = "tsc1"
    /\ origin1.mode = "unarguable" /\ origin2.mode = "unarguable"
    /\ Len(input_factors) = 2 /\ tsc1 # <<>> /\ tsc2 # <<>>


\* the ids of the factor strings of a line, in the order they stand in it
FactorIds(line) ==
    LET toks == SelectSeq(line, LAMBDA t : t.kind = "factor")
    IN  [i \in DOMAIN toks |-> toks[i].id]

\* the parsed entries that name exactly the factors of list, one entry each
OneEntryPerFactor(entries, list) ==
    /\ Len(entries) = Len(list)
    /\ Range(entries) = {<<FactorTok(f)>> : f \in Range(list)}

Ascending(ids) == \A i, j \in DOMAIN ids : i < j => ids[i] < ids[j]

\* the line of a rendered text that lists the factors of a section
SectionLine(text, section) ==
    text[IF section = "Input" THEN 3 ELSE IF section = "TSC1" THEN 7 ELSE 11]

ListsAscending(text, section, list) ==
    /\ Ascending(FactorIds(SectionLine(text, section)))
    /\ Range(FactorIds(SectionLine(text, section))) = Range(list)

\* C3: rendering succeeds for every generated scenario (generate_initial_prompt
\* and the text update_tsc returns) and lists the factors of each section in
\* ascending numeric id.
C3_RenderSorted ==
    /\ (pc = "generator" /\ last.op = "generate_initial_prompt")
           => result.kind = "text"
    /\ (pc = "generator" /\ result.kind = "text") =>
           /\ ListsAscending(result.text, "Input", input_factors)
           /\ ListsAscending(result.text, "TSC1", tsc1)
           /\ ListsAscending(result.text, "TSC2", tsc2)

\* C4: generate_datasets(mode, case_number, complexity) returns a list of
\* exactly case_number rendered scenarios.
C4_DatasetLength ==
    pc = "datasets" =>
        /\ result.kind = "list"
        /\ Len(result.sets) = last.case_number

\* the outcome lines of a rendered text
OutcomeLabels(text) == <<text[6][1].kind, text[10][1].kind>>

\* C5: a Reordered scenario is the Arguable scenario of the same random draws
\* with tsc1 and tsc2 exchanged, and its prompt carries 'outcome Defendant'
\* for TSC 1 and 'outcome Plaintiff' for TSC 2; every other mode renders
\* Plaintiff for TSC 1 and Defendant for TSC 2.
C5_ReorderedIsSwappedArguable ==
    /\ (pc = "generator" /\ last.op \in {"__init__", "restart"}
          /\ mode1 = "reordered" /\ mode2 = "reordered") =>
           Scenario(input_factors, tsc2, origin2, tsc1, origin1)
              \in generate_input_scenario("arguable", "arguable", complexity)
    /\ (pc = "generator" /\ last.op = "generate_initial_prompt") =>
           /\ result.kind = "text"
           /\ OutcomeLabels(result.text) =
                 IF mode1 = "reordered" /\ mode2 = "reordered"
                 THEN <<"outcome Defendant", "outcome Plaintiff">>
                 ELSE <<"outcome Plaintiff", "outcome Defendant">>


\* the factors of list with polarity pol
OfPolarity(list, pol) == {f \in Range(list) : Polarity(f) = pol}

\* C6: in Arguable mode generate_tsc_factor for side TSC1 returns at least one
\* Plaintiff-polarity factor of input_factors whenever input_factors has one,
\* and for side TSC2 at least one Defendant-polarity factor of input_factors
\* whenever it has one.
C6_ArguableSharesPolarity ==
    (pc = "returned" /\ origin1.mode = "arguable") =>
        LET pol == IF origin1.is_tsc1 THEN "P" ELSE "D"
        IN  OfPolarity(input_factors, pol) # {}
                => OfPolarity(input_factors, pol) \cap Range(tsc1) # {}

\* a TSC2 call whose input holds factors of both polarities and whose result
\* holds a factor outside the input
C6_Witness ==
    /\ pc = "returned"
    /\ origin1.mode = "arguable" /\ ~origin1.is_tsc1
    /\ OfPolarity(input_factors, "P") # {}
    /\ OfPolarity(input_factors, "D") # {}
    /\ Range(tsc1) \ Range(input_factors) # {}

InRange(n, c) == Max(1, c - 1) <= n /\ n <= c + 1

\* the side was generated in Unarguable mode and holds every catalog factor
\* outside input_factors, fewer than the smallest target count
ShrunkUnarguable(list, origin) ==
    /\ origin.mode = "unarguable"
    /\ Range(list) = Range(Without(factors, input_factors))
    /\ Len(list) < Max(1, complexity - 1)

\* C7: the sizes of input_factors, tsc1 and tsc2 of a generated scenario lie
\* in [max(1, complexity-1), complexity+1], except for an Unarguable-mode side
\* shrunk because too few catalog factors remain outside input_factors.
C7_SizesInRange ==
    pc = "generator" =>
        /\ InRange(Len(input_factors), complexity)
        /\ InRange(Len(tsc1), complexity) \/ ShrunkUnarguable(tsc1, origin1)
        /\ InRange(Len(tsc2), complexity) \/ ShrunkUnarguable(tsc2, origin2)

\* C8: whenever mode1 or mode2 of a generator is 'reordered', both lists are
\* generated in Arguable mode (the TSC1 call seeded from Plaintiff factors,
\* the TSC2 call from Defendant factors) and then exchanged.
C8_ReorderedNeverDirect ==
    (pc = "generator" /\ last.op \in {"__init__", "restart"}
       /\ (mode1 = "reordered" \/ mode2 = "reordered")) =>
        /\ origin1 = Origin("arguable", FALSE, 2)
        /\ origin2 = Origin("arguable", TRUE, 1)

\* C9: every generation operation (construction, restart, update_tsc,
\* generate_datasets) terminates for every complexity: an overlap retry loop
\* runs at most 5 iterations, and the selection loops of generate_input_factor
\* and of the Arguable fill step eventually stop.
C9_AllTerminate ==
    /\ [](attempts <= MaxAttempts)
    /\ Running ~> Terminated

\* C9, for the complexities whose target counts fit in the catalog
\* (complexity + 1 <= len(self.factors)): every generation operation
\* terminates, by returning or by raising; an overlap retry loop runs at most
\* 5 iterations.
C9_TerminateWhenTargetsFit ==
    /\ [](attempts <= MaxAttempts)
    /\ (Running /\ complexity + 1 <= Len(factors)) ~> Terminated

\* an Arguable update_tsc that returned a tsc1 holding the whole catalog: its
\* fill loop ran until the last factor left was drawn
C9_Witness ==
    /\ pc = "generator"
    /\ last.op = "update_tsc" /\ last.tsc_name = "tsc1"
    /\ result.kind = "text"
    /\ origin1.mode = "arguable"
    /\ complexity + 1 = Len(factors)
    /\ Len(tsc1) = Len(factors)

\* the claimed labels of every section are the actual labels of that section,
\* and no section is empty
ClaimedEqualsActual ==
    /\ distilled_factors["Input Case"] = Range(row_factors["Input"])
    /\ distilled_factors["TSC1"] = Range(row_factors["TSC1"])
    /\ distilled_factors["TSC2"] = Range(row_factors["TSC2"])
    /\ \A sec \in DOMAIN row_factors : row_factors[sec] # <<>>

\* C10: count_factor_mismatches called with claimed sets equal to the actual
\* sets (the same labels in Input, TSC1 and TSC2, none of them empty) returns
\* mismatch count 0 for all three sections.
C10_SelfComparisonIsZero ==
    (pc = "counted" /\ ClaimedEqualsActual) =>
        /\ mismatches[1] = 0
        /\ mismatches[2] = 0
        /\ mismatches[3] = 0

\* a counted row whose claimed sets equal its actual sets, with sections that
\* differ from one another
C10_Witness ==
    /\ pc = "counted"
    /\ ClaimedEqualsActual
    /\ row_factors["Input"] # row_factors["TSC1"]
    /\ row_factors["TSC1"] # row_factors["TSC2"]
    /\ Len(row_factors["Input"]) = 2
    /\ mismatches[4] = mismatches[5]

\* the model claims nothing for the row
ClaimsNothing ==
    /\ distilled_factors["Input Case"] = {}
    /\ distilled_factors["TSC1"] = {}
    /\ distilled_factors["TSC2"] = {}

\* C11: count_factor_weaknesses called with all three claimed sets empty
\* returns, for each section, a weakness count equal to the number of actual
\* factors of that section.
C11_EmptyClaimsWeakness ==
    (pc = "weighed" /\ ClaimsNothing) =>
        /\ weaknesses[1] = Len(row_factors["Input"])
        /\ weaknesses[2] = Len(row_factors["TSC1"])
        /\ weaknesses[3] = Len(row_factors["TSC2"])

C11_Witness ==
    /\ pc = "weighed"
    /\ ClaimsNothing
    /\ Len(row_factors["Input"]) = MaxLabels
    /\ Len(row_factors["TSC1"]) = 1
    /\ Len(row_factors["TSC2"]) = 0
    /\ weaknesses[1] = MaxLabels
    /\ weaknesses[2] = 1
    /\ weaknesses[3] = 0

\* calculate_scores has scored the one row of the file
RowScored == pc = "reported" /\ report.total_rows = 1

\* the number of actual factors of the row over the three sections
TotalFactors ==
    Len(row_factors["Input"]) + Len(row_factors["TSC1"])
        + Len(row_factors["TSC2"])

\* the number of labels claimed for the row over the three sections
TotalClaimed ==
    Cardinality(distilled_factors["Input Case"])
        + Cardinality(distilled_factors["TSC1"])
        + Cardinality(distilled_factors["TSC2"])

\* the claimed labels of a section that its actual list does not hold
Hallucinated(claimed, actual) ==
    {x \in distilled_factors[claimed] : x \notin Range(row_factors[actual])}

TotalHallucinated ==
    Cardinality(Hallucinated("Input Case", "Input"))
        + Cardinality(Hallucinated("TSC1", "TSC1"))
        + Cardinality(Hallucinated("TSC2", "TSC2"))

\* the entries of a section's actual list that are not claimed for it
Omitted(claimed, actual) ==
    {i \in DOMAIN row_factors[actual] :
        row_factors[actual][i] \notin distilled_factors[claimed]}

TotalOmitted ==
    Cardinality(Omitted("Input Case", "Input"))
        + Cardinality(Omitted("TSC1", "TSC1"))
        + Cardinality(Omitted("TSC2", "TSC2"))

\* x = 1 - n/d, for d > 0
IsOneMinus(x, n, d) == x.den > 0 /\ x.num * d = (d - n) * x.den

\* C12: for every row with at least one actual factor, calculate_scores
\* computes accuracy = 1 - totalMismatches/totalFactors, where totalFactors
\* is the number of actual factors over the three sections and a section's
\* mismatch count is the number of claimed labels not present in the same
\* section's actual list (a label present only in another section counts).
C12_Accuracy ==
    (RowScored /\ TotalFactors > 0) =>
        /\ row_score.total_mismatches = TotalHallucinated
        /\ row_score.total_factors_in_row = TotalFactors
        /\ IsOneMinus(row_score.accuracy, TotalHallucinated, TotalFactors)

\* actual Input <<1>> and TSC1 <<2>>, claimed Input {2} and TSC1 {2}, TSC2
\* identical: label 2, present only in TSC1, is a mismatch of Input, and
\* label 1 is omitted
C12_Witness ==
    /\ RowScored
    /\ row_factors["Input"] = <<1>>
    /\ row_factors["TSC1"] = <<2>>
    /\ distilled_factors["Input Case"] = {2}
    /\ distilled_factors["TSC1"] = {2}
    /\ distilled_factors["TSC2"] = Range(row_factors["TSC2"])
    /\ row_score.total_mismatches = 1
    /\ row_score.total_weaknesses = 1
    /\ IsOneMinus(row_score.accuracy, 1, TotalFactors)

\* C13: calculate_scores counts a row as a successful abstention exactly when
\* totalWeaknesses = 0 and the distilled factor count = 0; hence a row whose
\* actual Input, TSC1 and TSC2 are all non-empty and for which the model
\* claims nothing is not counted, and a row is counted only if its actual
\* factor sets are all empty.
C13_Abstention ==
    RowScored =>
        /\ row_score.abstention <=> (TotalOmitted = 0 /\ TotalClaimed = 0)
        /\ report.successful_abstention_count
               = (IF TotalOmitted = 0 /\ TotalClaimed = 0 THEN 1 ELSE 0)
        /\ (/\ row_factors["Input"] # <<>>
            /\ row_factors["TSC1"] # <<>>
            /\ row_factors["TSC2"] # <<>>
            /\ ClaimsNothing) => report.successful_abstention_count = 0
        /\ report.successful_abstention_count = 1 => TotalFactors = 0

C13_Witness ==
    /\ RowScored
    /\ row_factors["Input"] # <<>>
    /\ row_factors["TSC1"] # <<>>
    /\ row_factors["TSC2"] # <<>>
    /\ ClaimsNothing
    /\ ~row_score.abstention
    /\ report.successful_abstention_count = 0

\* the mode names that read 'non-arguable' or 'unarguable' when case is
\* ignored
UnarguableScoreModes == {"unarguable", "Non-Arguable"}

\* C14: in calculate_scores the row strength is mode-dependent: when the
\* mode, compared case-insensitively, is 'non-arguable' or 'unarguable',
\* strength = 1 - dist/orig if orig > 0, else 1 if dist = 0, else 0; for
\* every other mode strength = 1 - totalWeaknesses/totalFactors if
\* totalFactors > 0, else 0.
C14_Strength ==
    RowScored =>
        IF last.mode \in UnarguableScoreModes
        THEN IF TotalFactors > 0
             THEN IsOneMinus(row_score.strength, TotalClaimed, TotalFactors)
             ELSE IF TotalClaimed = 0
                  THEN row_score.strength = One
                  ELSE row_score.strength = Zero
        ELSE IF TotalFactors > 0
             THEN IsOneMinus(row_score.strength, TotalOmitted, TotalFactors)
             ELSE row_score.strength = Zero

\* the mode is written with capitals and the two formulas differ
C14_Witness ==
    /\ RowScored
    /\ last.mode = "Non-Arguable"
    /\ TotalFactors = 2
    /\ TotalClaimed = 1
    /\ TotalOmitted = 2
    /\ row_score.strength = Ratio(1, 2)

\* C15 as stated: for every row whose actual factor sets are all empty, in
\* every mode, calculate_scores raises nothing and both the row accuracy and
\* the row strength are 0; for a file with zero rows the mean accuracy, mean
\* strength and abstention ratio are 0.
C15_DefaultsToZero ==
    /\ (RowScored /\ TotalFactors = 0) =>
           /\ row_score.accuracy = Zero
           /\ row_score.strength = Zero
    /\ (pc = "reported" /\ report.total_rows = 0) =>
           /\ report.accuracy = Zero
           /\ report.strength = Zero
           /\ report.successful_abstention_ratio = Zero

\* C15: for every row whose actual factor sets are all empty
\* calculate_scores raises nothing and the row accuracy is 0; the row
\* strength is 0 too, except in the modes 'non-arguable' and 'unarguable'
\* when nothing is claimed, where it is 1; for a file with zero rows the mean
\* accuracy, mean strength and abstention ratio are 0.
C15_GuardedDefaults ==
    /\ (RowScored /\ TotalFactors = 0) =>
           /\ row_score.accuracy = Zero
           /\ row_score.strength =
                  (IF last.mode \in UnarguableScoreModes /\ TotalClaimed = 0
                   THEN One ELSE Zero)
    /\ (pc = "reported" /\ report.total_rows = 0) =>
           /\ report.accuracy = Zero
           /\ report.strength = Zero
           /\ report.successful_abstention_ratio = Zero

C15_Witness ==
    /\ RowScored
    /\ TotalFactors = 0
    /\ TotalClaimed = 0
    /\ last.mode = "unarguable"
    /\ row_score.accuracy = Zero
    /\ row_score.strength = One

\* C16 as stated: process_distilled_factors never raises, whatever claim
\* text a scoring row carries (malformed, unbalanced braces, no braces,
\* empty, or a missing cell): on both scoring paths it returns a mapping
\* with the three keys 'Input Case', 'TSC1', 'TSC2'.
C16_NeverRaises ==
    pc = "distilled" =>
        /\ returned.kind = "dict"
        /\ DOMAIN returned.d = {"Input Case", "TSC1", "TSC2"}

\* the labels the documented text lists under a key
Listed(key) ==
    IF grammar.obj[key] = Absent THEN {}
    ELSE {LabelText(grammar.obj[key][i]) : i \in DOMAIN grammar.obj[key]}

\* C17: for claim text in the documented grammar process_distilled_factors
\* returns for each key exactly the set of labels listed under that key; an
\* absent key yields the empty set for that section without affecting the
\* other two, and nothing written before the closing marker contributes a
\* claim.
C17_DocumentedGrammar ==
    (pc = "distilled" /\ grammar # NoGrammar) =>
        /\ returned.kind = "dict"
        /\ \A key \in {"Input Case", "TSC1", "TSC2"} :
               returned.d[key] = Listed(key)

\* the trace holds an object that claims label 1 for TSC1; the object after
\* the marker has no key TSC1 and lists two labels under 'Input Case'
C17_Witness ==
    /\ pc = "distilled"
    /\ grammar # NoGrammar
    /\ \E i \in DOMAIN grammar.trace : grammar.trace[i] = Word("TSC1")
    /\ grammar.obj["TSC1"] = Absent
    /\ grammar.obj["Input Case"] = <<2, 1>>
    /\ grammar.obj["TSC2"] = <<1>>
    /\ returned.d["TSC1"] = {}
    /\ returned.d["Input Case"] = {LabelText(1), LabelText(2)}
    /\ returned.d["TSC2"] = {LabelText(1)}

\* the section a line names when its header is read in any case and with
\* any white space
HeaderNamed(line) ==
    IF \E i \in DOMAIN line :
           line[i].kind \in {"Input Scenario", "Input   Scenario", "input scenario"}
    THEN "input"
    ELSE IF \E i \in DOMAIN line : line[i].kind \in {"TSC 1", "TSC   1", "tsc   1"}
    THEN "tsc1"
    ELSE IF \E i \in DOMAIN line : line[i].kind \in {"TSC 2", "TSC   2", "tsc 2"}
    THEN "tsc2"
    ELSE "None"

\* C18 as stated: extract_case_factors recognises the section headers
\* 'Input Scenario', 'TSC 1' and 'TSC 2' case-insensitively and with any
\* amount of white space between the words, each such line switching the
\* active section: after a text that ends in a header line, the active
\* section is the one that line names.
C18_HeadersAnyCase ==
    (pc = "extracted" /\ cell.text # <<>>
        /\ HeaderNamed(cell.text[Len(cell.text)]) # "None") =>
        returned.current_section = HeaderNamed(cell.text[Len(cell.text)])

\* the lines of the cell that hold a factor and no header
FactorLines ==
    {n \in DOMAIN cell.text :
        /\ HeaderNamed(cell.text[n]) = "None"
        /\ \E i \in DOMAIN cell.text[n] : cell.text[n][i].kind = "factor"}

\* the section named by the most recent header line before line n
SectionAt(n) ==
    LET before == {h \in 1..(n - 1) : HeaderNamed(cell.text[h]) # "None"}
    IN  IF before = {} THEN "None"
        ELSE HeaderNamed(cell.text[CHOOSE h \in before : \A k \in before : k <= h])

\* list holds, in the order of the lines, the factor lines of the section,
\* each without the white space around it and without its trailing comma
ListsSection(list, section) ==
    LET lines == {n \in FactorLines : SectionAt(n) = section}
    IN  /\ Len(list) = Cardinality(lines)
        /\ \A n \in lines :
               list[Cardinality({m \in lines : m <= n})]
                   = RStripComma(Strip(cell.text[n]))

\* C19 as stated: extract_case_factors is a single left-to-right pass with
\* persistent section state: each factor line is appended, in input order
\* and with its trailing comma stripped, to the list of the section named by
\* the most recent header line before it; factor lines before the first
\* header are dropped; lines that are neither header nor factor change
\* nothing.
C19_SinglePass ==
    pc = "extracted" =>
        /\ ListsSection(returned.Input, "input")
        /\ ListsSection(returned.TSC1, "tsc1")
        /\ ListsSection(returned.TSC2, "tsc2")

\* the internal mode a mode name stands for
Resolved(name, default) ==
    IF name \in {"non-arguable", "unarguable"} THEN "unarguable"
    ELSE IF name = "reordered" THEN "reordered"
    ELSE IF name = "arguable" THEN "arguable"
    ELSE default

\* the generate_tsc_factor call update_tsc makes for a side under a mode:
\* Reordered regenerates both sides in Arguable mode and swaps them
UpdatedBy(o, internal_mode, is_tsc1) ==
    IF internal_mode = "reordered"
    THEN o = Origin("arguable", ~is_tsc1, IF is_tsc1 THEN 2 ELSE 1)
    ELSE o.mode = internal_mode /\ o.is_tsc1 = is_tsc1

\* C20: 'non-arguable' and 'unarguable' resolve to Unarguable, 'reordered'
\* to Reordered, 'arguable' to Arguable; any other name resolves to
\* Reordered in the ScenarioGenerator constructor and in update_tsc, and to
\* Unarguable in generate_datasets.
C20_ModeNames ==
    /\ (pc = "generator" /\ last.op = "__init__") =>
           /\ mode1 = Resolved(last.mode, "reordered")
           /\ mode2 = Resolved(last.mode2, "reordered")
    /\ (pc = "generator" /\ last.op = "update_tsc") =>
           LET internal_mode == Resolved(last.mode, "reordered")
           IN  /\ result.kind = "ValueError" <=>
                      (internal_mode # "reordered"
                          /\ last.tsc_name \notin {"tsc1", "tsc2"})
               /\ (result.kind # "ValueError" /\ last.tsc_name = "tsc1") =>
                      UpdatedBy(origin1, internal_mode, TRUE)
               /\ (result.kind # "ValueError" /\ last.tsc_name = "tsc2") =>
                      UpdatedBy(origin2, internal_mode, FALSE)
    /\ (pc = "datasets" /\ last.case_number > 0) =>
           mode1 = Resolved(last.mode, "unarguable")

\* generate_datasets called with an unknown name has built Unarguable
\* generators
C20_Witness ==
    /\ pc = "datasets"
    /\ last.case_number > 0
    /\ last.mode = "citable"
    /\ mode1 = "unarguable"
    /\ mode2 = "unarguable"

\* the catalog factors outside input_factors (available_factors, line 134)
Available == Range(Without(factors, input_factors))

\* C21: in Unarguable mode generate_tsc_factor never raises and returns
\* min(target_count, |catalog minus input_factors|) distinct factors for a
\* target_count it can draw, all of them catalog factors outside
\* input_factors; the list is empty when none remain.
C21_UnarguableShrinks ==
    /\ pc = "input" =>
           \A is_tsc1 \in BOOLEAN :
               generate_tsc_factor(input_factors, "unarguable", is_tsc1,
                                   complexity) # {}
    /\ (pc = "returned" /\ origin1.mode = "unarguable") =>
           /\ Cardinality(Range(tsc1)) = Len(tsc1)
           /\ Range(tsc1) \subseteq Available
           /\ \E t \in TargetCounts(complexity) :
                  Len(tsc1) = Min(t, Cardinality(Available))
           /\ Available = {} => tsc1 = <<>>

\* an Unarguable call on input_factors that hold the whole catalog: every
\* target count it can draw is at least 1 and the call returned the empty list
C21_Witness ==
    /\ pc = "returned"
    /\ origin1.mode = "unarguable"
    /\ Available = {}
    /\ \A t \in TargetCounts(complexity) : t >= 1
    /\ tsc1 = <<>>

\* the sum of a count over the rows calculate_scores has processed
RECURSIVE SumOverRows(_, _)
SumOverRows(field, n) ==
    IF n = 0 THEN 0 ELSE row_scores[n][field] + SumOverRows(field, n - 1)

\* C22: the report of calculate_scores holds a successful-abstention ratio
\* exactly when the mode is 'non-arguable' or 'unarguable' in any case; the
\* ratio is successful_abstention_count / total_rows * 100, and the summed
\* original, distilled, mismatch and weakness counts are the sums of the
\* per-row counts over all rows processed.
C22_ReportSums ==
    pc = "reported" =>
        LET n == Len(row_scores)
            abstained == {i \in 1..n : row_scores[i].abstention}
        IN  /\ report.has_ratio <=> last.mode \in UnarguableScoreModes
            /\ report.total_rows = n
            /\ report.successful_abstention_count = Cardinality(abstained)
            /\ (report.has_ratio /\ n > 0) =>
                   /\ report.successful_abstention_ratio.den > 0
                   /\ report.successful_abstention_ratio.num * n =
                          100 * Cardinality(abstained)
                              * report.successful_abstention_ratio.den
            /\ report.original_factors = SumOverRows("orig_factors", n)
            /\ report.distilled_factors = SumOverRows("dist_factors", n)
            /\ report.total_mismatches = SumOverRows("total_mismatches", n)
            /\ report.total_weaknesses = SumOverRows("total_weaknesses", n)

\* a 'Non-Arguable' file of two rows, one of them a successful abstention and
\* both holding factors, mismatches and weaknesses or claims: the ratio is 50
C22_Witness ==
    /\ pc = "reported"
    /\ last.mode = "Non-Arguable"
    /\ Len(row_scores) = 2
    /\ row_scores[1].abstention /\ ~row_scores[2].abstention
    /\ row_scores[2].orig_factors > 0
    /\ row_scores[2].total_mismatches > 0
    /\ row_scores[2].total_weaknesses > 0
    /\ report.has_ratio
    /\ report.successful_abstention_ratio = Ratio(50, 1)
    /\ report.original_factors = row_scores[2].orig_factors

\* the catalog is a list of n entries with ascending (hence pairwise
\* distinct) ids, and exactly one id between its first and its last is absent
CatalogOf(n) ==
    LET ids == [i \in DOMAIN AllFactors |-> AllFactors[i].id]
    IN  /\ Len(ids) = n
        /\ \A i, j \in DOMAIN ids : i < j => ids[i] < ids[j]
        /\ Cardinality((ids[1]..ids[Len(ids)]) \ Range(ids)) = 1

C24_ArguableExactlyTarget ==
    (pc = "return" /\ TscMode = "arguable") =>
        /\ target_count \in TargetCounts(complexity)
        /\ Len(selected_factors) = target_count

\* C26: the overlap-repair branches are dead: in Unarguable mode no execution
\* of the constructor, restart, update_tsc or generate_datasets finds an
\* overlap, so no side is regenerated (a regenerated side has call 3 or 4 of
\* generate_input_scenario as its origin), no restart is made, the attempt
\* counters stay 0 and the warning, printed at 5 attempts, is unreachable.
C26_RepairBranchesDead ==
    /\ attempts = 0
    /\ origin1.call # 3
    /\ origin2.call # 4
    /\ (pc = "check" /\ mode1 = "unarguable") =>
           /\ ~Overlaps(input_factors, tsc1)
           /\ ~Overlaps(input_factors, tsc2)
    /\ pc = "retry" =>
           ~Overlaps(input_factors, IF tsc_type = "TSC1" THEN tsc1 ELSE tsc2)
    /\ (pc = "generator" /\ origin1.mode = "unarguable") =>
           ~Overlaps(input_factors, tsc1)
    /\ (pc = "generator" /\ origin2.mode = "unarguable") =>
           ~Overlaps(input_factors, tsc2)

\* generate_datasets in Unarguable mode stands at its overlap test with a
\* generator whose two sides hold factors
C26_Witness ==
    /\ pc = "check"
    /\ mode1 = "unarguable"
    /\ attempts = 0
    /\ tsc1 # <<>>
    /\ tsc2 # <<>>

\* the list holds no factor twice and only factors of the catalog
WellFormed(list) ==
    /\ \A i, j \in DOMAIN list : i # j => list[i] # list[j]
    /\ \A i \in DOMAIN list : \E k \in DOMAIN AllFactors :
           AllFactors[k].id = list[i]

\* C27: after any sequence of constructor, restart and update_tsc calls in
\* any modes, each of input_factors, tsc1 and tsc2 contains no factor twice
\* and contains only factors of the catalog.
C27_ListsWellFormed ==
    pc = "generator" =>
        /\ WellFormed(input_factors)
        /\ WellFormed(tsc1)
        /\ WellFormed(tsc2)

\* an update_tsc that returned its text on a generator whose three lists hold
\* two factors or more each
C27_Witness ==
    /\ pc = "generator"
    /\ last.op = "update_tsc"
    /\ result.kind = "text"
    /\ Len(input_factors) >= 2
    /\ Len(tsc1) >= 2
    /\ Len(tsc2) >= 2

\* C28: update_tsc called with a tsc_name other than 'tsc1' or 'tsc2' raises
\* ValueError and leaves input_factors, tsc1 and tsc2 unchanged, for every
\* value of the mode argument; called with 'tsc1' (resp. 'tsc2') it replaces
\* only that side and leaves the other side and input_factors unchanged.
C28_UpdateTscNames ==
    [][(pc = "generator" /\ calls' = calls + 1 /\ last'.op = "update_tsc") =>
          /\ last'.tsc_name \notin {"tsc1", "tsc2"} =>
                 /\ result'.kind = "ValueError"
                 /\ UNCHANGED <<input_factors, tsc1, tsc2>>
          /\ last'.tsc_name = "tsc1" =>
                 UNCHANGED <<input_factors, tsc2, origin2>>
          /\ last'.tsc_name = "tsc2" =>
                 UNCHANGED <<input_factors, tsc1, origin1>>]_vars

\* 0 <= x <= k
Within(x, k) == x.den > 0 /\ 0 <= x.num /\ x.num <= k * x.den

\* C29: for every row and every mode, the accuracy and strength computed by
\* calculate_scores lie in [0, 1], so the reported mean accuracy and mean
\* strength percentages lie in [0, 100], whatever number of labels the model
\* claims.
C29_ScoresInUnitInterval ==
    RowScored =>
        /\ Within(row_score.accuracy, 1)
        /\ Within(row_score.strength, 1)
        /\ Within(report.accuracy, 100)
        /\ Within(report.strength, 100)

\* what calculate_scores computes in the given mode for the file
\* process_csv_file has processed
OtherPath(mode) ==
    LET scores == IF Len(result.all_accuracies) = 1
                  THEN <<calculate_scores_row(mode, row_factors,
                                              distilled_factors)>>
                  ELSE <<>>
    IN  [rows |-> scores, report |-> calculate_scores(mode, scores)]

\* the two paths give every row the same accuracy and strength
SameRowScores(mode) ==
    LET other == OtherPath(mode).rows
    IN  /\ Len(result.all_accuracies) = Len(other)
        /\ \A i \in DOMAIN other :
               /\ result.all_accuracies[i] = Times(other[i].accuracy, 100)
               /\ result.all_strengths[i] = Times(other[i].strength, 100)

\* the two paths give the same summed factor, mismatch and weakness counts
SameSums(mode) ==
    LET other == OtherPath(mode).report
    IN  /\ result.all_original_factors = other.original_factors
        /\ result.all_distilled_factors = other.distilled_factors
        /\ result.all_mismatches = other.total_mismatches
        /\ result.all_weaknesses = other.total_weaknesses

\* C30: the two scoring paths agree: for the same rows and a mode other than
\* Unarguable, process_csv_file and calculate_scores produce the same per-row
\* accuracy and strength, the same summed factor, mismatch and weakness
\* counts, and count the same rows as successful abstentions.
C30_PathsAgree ==
    pc = "processed" =>
        \A mode \in ScoreModes \ UnarguableScoreModes :
            /\ SameRowScores(mode)
            /\ SameSums(mode)
            /\ result.successful_abstention_count =
                   OtherPath(mode).report.successful_abstention_count

====
